---- MODULE Spec2Model ----
(***************************************************************************)
(* A model of the GIF decoding core of gif-renderer.rs: the byte source    *)
(* (gif_reader.rs), the LZW decoder (decoder.rs), the colour table and     *)
(* header parsers (color.rs, header.rs), the extension parsers, the frame  *)
(* compositor and the decode driver (parser.rs).                           *)
(*                                                                         *)
(* Bytes are integers 0..255.  A Vec<u8> is a sequence of bytes.  A Rust    *)
(* Option is a sequence of length at most one: None is << >>, Some(x) is   *)
(* << x >>.  A Result is a record with a boolean field `ok`.               *)
(***************************************************************************)
EXTENDS Integers, Sequences, FiniteSets, TLC

-----------------------------------------------------------------------------
(* Integer helpers standing for Rust's shifts and masks.                    *)

RECURSIVE Pow2(_)
\* 1 << n
Pow2(n) == IF n = 0 THEN 1 ELSE 2 * Pow2(n - 1)

RECURSIVE BitOr(_, _)
\* a | b on naturals
BitOr(a, b) ==
    IF a = 0 THEN b
    ELSE IF b = 0 THEN a
    ELSE (IF (a % 2 = 1) \/ (b % 2 = 1) THEN 1 ELSE 0) + 2 * BitOr(a \div 2, b \div 2)

\* a & ((1 << n) - 1)
LowBits(a, n) == a % Pow2(n)

\* buf[from..] of a Rust slice, `from` counted from 0
SliceFrom(buf, from) == SubSeq(buf, from + 1, Len(buf))

-----------------------------------------------------------------------------
(* decoder.rs: LzwDictionary.  `table` is the Vec<Option<Vec<u8>>>; the     *)
(* entry for code c is table[c + 1].  A pushed or root value is never       *)
(* empty, so Option::None (the two sentinel slots) is the empty sequence.   *)

NoneEntry == << >>

\* LzwDictionary::clear: the table after a reset, roots then the two None slots
ClearedTable(min_code_size) ==
    [i \in 1..(Pow2(min_code_size) + 2) |->
        IF i <= Pow2(min_code_size) THEN << (i - 1) % 256 >> ELSE NoneEntry]

\* LzwDictionary::clear
DictClear(d) ==
    [d EXCEPT !.table = ClearedTable(d.min_code_size),
              !.curr_code_size = d.min_code_size + 1]

\* LzwDictionary::new
LzwDictionaryNew(min_code_size) ==
    DictClear([min_code_size |-> min_code_size,
               curr_code_size |-> min_code_size + 1,
               table |-> << >>])

\* get_value that takes a code past the table for the Stop code
GetValueStopsPastTable(d, code) ==
    IF Len(d.table) > code
    THEN IF d.table[code + 1] # NoneEntry
         THEN [kind |-> "Value", val |-> d.table[code + 1]]
         ELSE IF code = Pow2(d.min_code_size)
              THEN [kind |-> "Clear", val |-> << >>]
              ELSE [kind |-> "Stop", val |-> << >>]
    ELSE IF code = Len(d.table)
         THEN [kind |-> "Repeat", val |-> << >>]
         ELSE [kind |-> "Stop", val |-> << >>]

\* LzwDictionary::get_value
GetValue(d, code) ==
    IF Len(d.table) > code
    THEN IF d.table[code + 1] # NoneEntry
         THEN [kind |-> "Value", val |-> d.table[code + 1]]
         ELSE IF code = Pow2(d.min_code_size)
              THEN [kind |-> "Clear", val |-> << >>]
              ELSE [kind |-> "Stop", val |-> << >>]
    ELSE IF code = Len(d.table)
         THEN [kind |-> "Repeat", val |-> << >>]
         ELSE [kind |-> "None", val |-> << >>]

\* push_new_value that never grows curr_code_size
PushNewValueFixedWidth(d, val) == [d EXCEPT !.table = Append(d.table, val)]

\* push_new_value that grows curr_code_size past 12
PushNewValueNoClamp(d, val) ==
    LET t == Append(d.table, val)
    IN [d EXCEPT !.table = t,
                 !.curr_code_size =
                     IF Len(t) = Pow2(d.curr_code_size) THEN d.curr_code_size + 1
                     ELSE d.curr_code_size]

\* LzwDictionary::push_new_value
PushNewValue(d, val) ==
    LET t == Append(d.table, val)
    IN [d EXCEPT !.table = t,
                 !.curr_code_size =
                     IF Len(t) = Pow2(d.curr_code_size) /\ d.curr_code_size < 12
                     THEN d.curr_code_size + 1
                     ELSE d.curr_code_size]

-----------------------------------------------------------------------------
(* decoder.rs: LsbReader.  The result's `code` is -1 for Option::None.      *)

RECURSIVE FillBits(_, _, _, _, _)
\* the `while self.bits < code_size` loop of get_next_code; bits < code_size <= 16
\* when a byte is shifted in, so the u32 accumulator never loses a bit
FillBits(bits, acc, buf, code_size, consumed) ==
    IF bits >= code_size
    THEN [bits |-> bits, acc |-> acc, consumed |-> consumed, full |-> TRUE]
    ELSE IF Len(buf) > 0
         THEN FillBits(bits + 8,
                       BitOr(acc, buf[1] * Pow2(bits)),
                       Tail(buf), code_size, consumed + 1)
         ELSE [bits |-> bits, acc |-> acc, consumed |-> consumed, full |-> FALSE]

\* get_next_code that gives acc and bits their former values back when the
\* input runs out
GetNextCodeRestores(bits, acc, buf, code_size) ==
    IF code_size > 16
    THEN [consumed |-> 0, code |-> -1, acc |-> acc, bits |-> bits, panic |-> TRUE]
    ELSE LET f == FillBits(bits, acc, buf, code_size, 0)
         IN IF f.full
            THEN [consumed |-> f.consumed,
                  code |-> LowBits(f.acc, code_size),
                  acc |-> f.acc \div Pow2(code_size),
                  bits |-> f.bits - code_size,
                  panic |-> FALSE]
            ELSE [consumed |-> f.consumed, code |-> -1, acc |-> acc,
                  bits |-> bits, panic |-> FALSE]

\* LsbReader::get_next_code; `panic` is its panic!("Cannot read more than 16 bits")
GetNextCode(bits, acc, buf, code_size) ==
    IF code_size > 16
    THEN [consumed |-> 0, code |-> -1, acc |-> acc, bits |-> bits, panic |-> TRUE]
    ELSE LET f == FillBits(bits, acc, buf, code_size, 0)
         IN IF f.full
            THEN [consumed |-> f.consumed,
                  code |-> LowBits(f.acc, code_size),
                  acc |-> f.acc \div Pow2(code_size),
                  bits |-> f.bits - code_size,
                  panic |-> FALSE]
            ELSE [consumed |-> f.consumed, code |-> -1, acc |-> f.acc,
                  bits |-> f.bits, panic |-> FALSE]

-----------------------------------------------------------------------------
(* decoder.rs: LzwDecoder.  A decoder value is a record                     *)
(*   [current_val, bits, acc, dict].                                        *)

\* LzwDecoder::new
LzwDecoderNew(min_code_size) ==
    [current_val |-> << >>, bits |-> 0, acc |-> 0,
     dict |-> LzwDictionaryNew(min_code_size)]

\* a Value arm that keeps the pushed sequence as current_val
OnValueKeepsPushed(dec, val) ==
    LET cv == Append(dec.current_val, val[1])
    IN IF Len(cv) # 1
       THEN [dec EXCEPT !.dict = PushNewValue(dec.dict, cv), !.current_val = cv]
       ELSE [dec EXCEPT !.current_val = cv]

\* the DictionaryValue::Value arm of decode_next
OnValue(dec, val) ==
    LET cv == Append(dec.current_val, val[1])
    IN IF Len(cv) # 1
       THEN [dec EXCEPT !.dict = PushNewValue(dec.dict, cv), !.current_val = val]
       ELSE [dec EXCEPT !.current_val = cv]

\* the DictionaryValue::Repeat arm of decode_next (current_val not empty)
OnRepeat(dec) ==
    LET cv == Append(dec.current_val, dec.current_val[1])
    IN [dec EXCEPT !.current_val = cv, !.dict = PushNewValue(dec.dict, cv)]

\* a Clear arm that resets the dictionary and keeps current_val
OnClearKeepsValue(dec) == [dec EXCEPT !.dict = DictClear(dec.dict)]

\* the DictionaryValue::Clear arm of decode_next
OnClear(dec) ==
    [dec EXCEPT !.dict = DictClear(dec.dict), !.current_val = << >>]

RECURSIVE DecodeLoop(_, _, _)
\* the loop of decode_next over the slice `buf` still to read; the result is
\* the decoder afterwards, the bytes decoded and whether a panic! was hit
DecodeLoop(dec, buf, decoded_buf) ==
    LET \* the two matches, on the result r of get_next_code, the decoder dec1
        \* after it, the slice left and the DictionaryValue v of the code
        Match(r, dec1, rest, v) ==
            IF r.code = -1
            THEN [dec |-> dec1, out |-> decoded_buf, panic |-> r.panic, stop |-> FALSE]
            ELSE CASE v.kind = "Clear" ->
                        DecodeLoop(OnClear(dec1), rest, decoded_buf)
                   [] v.kind = "Stop" ->
                        [dec |-> dec1, out |-> decoded_buf, panic |-> FALSE, stop |-> TRUE]
                   [] v.kind = "None" ->
                        [dec |-> dec1, out |-> decoded_buf, panic |-> TRUE, stop |-> FALSE]
                   [] v.kind = "Repeat" ->
                        IF Len(dec1.current_val) = 0
                        THEN [dec |-> dec1, out |-> decoded_buf, panic |-> TRUE,
                              stop |-> FALSE]
                        ELSE DecodeLoop(OnRepeat(dec1), rest,
                                        decoded_buf \o OnRepeat(dec1).current_val)
                   [] OTHER ->
                        DecodeLoop(OnValue(dec1, v.val), rest, decoded_buf \o v.val)
        GetValueOf(r, dec1) ==
            Match(r, dec1, SliceFrom(buf, r.consumed), GetValue(dec1.dict, r.code))
        Consumed(r) == GetValueOf(r, [dec EXCEPT !.bits = r.bits, !.acc = r.acc])
    IN Consumed(GetNextCode(dec.bits, dec.acc, buf, dec.dict.curr_code_size))

\* LzwDecoder::decode_next
DecodeNext(dec, buf) == DecodeLoop(dec, buf, << >>)

-----------------------------------------------------------------------------
(* A conforming GIF LZW encoder (GIF89a, appendix F): Clear code first,     *)
(* greedy longest match, one table entry per emitted data code, code width  *)
(* grown when the entry 2^width is assigned, capped at 12 bits, Stop code   *)
(* last, codes packed least significant bit first.  It is the reference     *)
(* the decoder is compared with; it is no part of the repository.           *)

InTable(table, s) == \E c \in 1..Len(table) : table[c] = s

CodeOf(table, s) == (CHOOSE c \in 1..Len(table) : table[c] = s) - 1

\* the width in force once the entry with code Len(table) has been assigned
GrownSize(table, size) ==
    IF Len(table) = Pow2(size) /\ size < 12 THEN size + 1 ELSE size

RECURSIVE EncLoop(_, _, _, _, _, _)
\* codes is a sequence of <<code, width>>
EncLoop(data, i, w, table, size, codes) ==
    IF i > Len(data)
    THEN IF w = << >>
         THEN codes
         ELSE Append(codes, << CodeOf(table, w), size >>)
    ELSE LET wk == Append(w, data[i])
         IN IF InTable(table, wk)
            THEN EncLoop(data, i + 1, wk, table, size, codes)
            ELSE EncLoop(data, i + 1, << data[i] >>,
                         IF Len(table) < 4096 THEN Append(table, wk) ELSE table,
                         IF Len(table) < 4096 THEN GrownSize(table, size) ELSE size,
                         Append(codes, << CodeOf(table, w), size >>))

RECURSIVE EncFinalSize(_, _, _, _, _)
\* the table length and width the encoder has reached after the last data code
EncFinalSize(data, i, w, table, size) ==
    IF i > Len(data)
    THEN IF w = << >> THEN size
         ELSE IF Len(table) < 4096 THEN GrownSize(table, size) ELSE size
    ELSE LET wk == Append(w, data[i])
         IN IF InTable(table, wk)
            THEN EncFinalSize(data, i + 1, wk, table, size)
            ELSE EncFinalSize(data, i + 1, << data[i] >>,
                              IF Len(table) < 4096 THEN Append(table, wk) ELSE table,
                              IF Len(table) < 4096 THEN GrownSize(table, size) ELSE size)

\* the codes of a whole stream: Clear, the data codes, Stop
EncodeCodes(min_code_size, data) ==
    LET t0 == ClearedTable(min_code_size)
        s0 == min_code_size + 1
    IN << << Pow2(min_code_size), s0 >> >>
       \o EncLoop(data, 1, << >>, t0, s0, << >>)
       \o << << Pow2(min_code_size) + 1, EncFinalSize(data, 1, << >>, t0, s0) >> >>

RECURSIVE PackBits(_, _, _, _)
\* codes packed LSB first into bytes, the last byte padded with zero bits
PackBits(codes, i, acc, bits) ==
    IF bits >= 8
    THEN << acc % 256 >> \o PackBits(codes, i, acc \div 256, bits - 8)
    ELSE IF i > Len(codes)
         THEN IF bits > 0 THEN << acc >> ELSE << >>
         ELSE PackBits(codes, i + 1, acc + codes[i][1] * Pow2(bits), bits + codes[i][2])

\* the compressed byte stream of `data`
LzwEncode(min_code_size, data) == PackBits(EncodeCodes(min_code_size, data), 1, 0, 0)

-----------------------------------------------------------------------------
(* gif_reader.rs: GifReader over the bytes `input`, `pos` bytes of which    *)
(* have been asked for.  Every method adds to self.pos before it reads, so  *)
(* the position returned also counts a read that failed.  The underlying    *)
(* reader stands at pos as long as no read has failed; a read or a seek     *)
(* past the end leaves pos > Len(input), and every later read fails too.    *)

None == << >>

Some(x) == << x >>

\* GifReader::read_u8
ReadU8(input, pos) ==
    [ok |-> pos + 1 <= Len(input),
     pos |-> pos + 1,
     val |-> IF pos + 1 <= Len(input) THEN input[pos + 1] ELSE 0]

\* GifReader::read_u16: u16::from_le_bytes
ReadU16(input, pos) ==
    [ok |-> pos + 2 <= Len(input),
     pos |-> pos + 2,
     val |-> IF pos + 2 <= Len(input) THEN input[pos + 1] + 256 * input[pos + 2] ELSE 0]

\* GifReader::read_bytes
ReadBytes(input, pos, nb_bytes) ==
    [ok |-> pos + nb_bytes <= Len(input),
     pos |-> pos + nb_bytes,
     val |-> IF pos + nb_bytes <= Len(input)
             THEN SubSeq(input, pos + 1, pos + nb_bytes) ELSE << >>]

\* a UTF-8 continuation byte at place i of bytes
IsCont(bytes, i) == i <= Len(bytes) /\ bytes[i] >= 128 /\ bytes[i] <= 191

RECURSIVE Utf8From(_, _)
\* the bytes from place i on are well-formed UTF-8 sequences
Utf8From(bytes, i) ==
    IF i > Len(bytes) THEN TRUE
    ELSE LET b == bytes[i]
             second == IF i < Len(bytes) THEN bytes[i + 1] ELSE 0
         IN IF b < 128 THEN Utf8From(bytes, i + 1)
            ELSE IF b >= 194 /\ b <= 223
                 THEN IsCont(bytes, i + 1) /\ Utf8From(bytes, i + 2)
            ELSE IF b >= 224 /\ b <= 239
                 THEN /\ IsCont(bytes, i + 1) /\ IsCont(bytes, i + 2)
                      /\ (b = 224 => second >= 160)
                      /\ (b = 237 => second <= 159)
                      /\ Utf8From(bytes, i + 3)
            ELSE IF b >= 240 /\ b <= 244
                 THEN /\ IsCont(bytes, i + 1) /\ IsCont(bytes, i + 2)
                      /\ IsCont(bytes, i + 3)
                      /\ (b = 240 => second >= 144)
                      /\ (b = 244 => second <= 143)
                      /\ Utf8From(bytes, i + 4)
            ELSE FALSE

\* String::from_utf8 succeeds: the bytes are well-formed UTF-8
IsUtf8(bytes) == Utf8From(bytes, 1)

\* GifReader::read_str; err is "IOError" or "FromUtf8Error", val the string's bytes
ReadStr(input, pos, nb_bytes) ==
    LET r == ReadBytes(input, pos, nb_bytes)
    IN [ok |-> r.ok /\ IsUtf8(r.val),
        pos |-> r.pos,
        err |-> IF ~r.ok THEN "IOError" ELSE "FromUtf8Error",
        val |-> r.val]

\* GifReader::skip_bytes: seeking past the end is no error
SkipBytes(pos, nb_bytes) == pos + nb_bytes

\* UnexpectedLength with the two lengths taken for each other
UnexpectedLengthSwapped(expected, got, pos) ==
    [ok |-> FALSE, panic |-> FALSE, err |-> "UnexpectedLength", pos |-> pos,
     expected |-> got, got |-> expected]

\* GifParsingError::UnexpectedLength { expected, got } returned at position pos
UnexpectedLength(expected, got, pos) ==
    [ok |-> FALSE, panic |-> FALSE, err |-> "UnexpectedLength", pos |-> pos,
     expected |-> expected, got |-> got]

\* a GifParsingError returned at reader position pos
Fail(kind, pos) == [ok |-> FALSE, panic |-> FALSE, err |-> kind, pos |-> pos]

\* a panic! raised at reader position pos
Panic(pos) == [ok |-> FALSE, panic |-> TRUE, err |-> "panic", pos |-> pos]

-----------------------------------------------------------------------------
(* color.rs                                                                 *)

RECURSIVE Triplets(_)
\* a 3N byte vector seen as N RGB values << r, g, b >>
Triplets(bytes) ==
    IF Len(bytes) < 3 THEN << >>
    ELSE << << bytes[1], bytes[2], bytes[3] >> >> \o Triplets(SubSeq(bytes, 4, Len(bytes)))

\* parse_color_table
ParseColorTable(input, pos, nb_entries) ==
    LET r == ReadBytes(input, pos, nb_entries * 3)
    IN IF ~r.ok THEN Fail("IOError", r.pos)
       ELSE [ok |-> TRUE, pos |-> r.pos, val |-> Triplets(r.val)]

-----------------------------------------------------------------------------
(* parser.rs: block and extension parsers                                   *)

IMAGE_DESCRIPTOR_BLOCK_ID == 44
TRAILER_BLOCK_ID == 59
EXTENSION_INTRODUCER_ID == 33
GRAPHIC_CONTROL_EXTENSION_LABEL == 249
APPLICATION_EXTENSION_LABEL == 255
COMMENT_EXTENSION_LABEL == 254
PLAIN_TEXT_EXTENSION_LABEL == 1
DEFAULT_BACKGROUND_COLOR == << 255, 255, 255 >>

RECURSIVE SkipSubBlocks(_, _)
\* skip_sub_blocks
SkipSubBlocks(input, pos) ==
    LET r == ReadU8(input, pos)
    IN IF ~r.ok THEN Fail("IOError", r.pos)
       ELSE IF r.val = 0 THEN [ok |-> TRUE, pos |-> r.pos]
       ELSE SkipSubBlocks(input, SkipBytes(r.pos, r.val))

\* skip_plain_text_extension
SkipPlainTextExtension(input, pos) ==
    LET r == ReadU8(input, pos)
    IN IF ~r.ok THEN Fail("IOError", r.pos)
       ELSE IF r.val # 12 THEN UnexpectedLength(12, r.val, r.pos)
       ELSE SkipSubBlocks(input, SkipBytes(r.pos, 12))

\* "NETSCAPE" and the authentication code (50, 46, 48) = "2.0"
NETSCAPE == << 78, 69, 84, 83, 67, 65, 80, 69 >>

NETSCAPE_AUTH == << 50, 46, 48 >>

RECURSIVE SkipRemainingData(_, _, _)
\* the "Skip all remaining data blocks" loop of parse_application_extension
SkipRemainingData(input, pos, data_len) ==
    IF data_len = 0 THEN [ok |-> TRUE, pos |-> pos]
    ELSE LET r == ReadU8(input, SkipBytes(pos, data_len - 1))
         IN IF ~r.ok THEN Fail("IOError", r.pos)
            ELSE SkipRemainingData(input, r.pos, r.val)

\* the end of parse_application_extension: the skip loop and the terminator
AppExtensionTail(input, pos, data_len, ext) ==
    LET s == SkipRemainingData(input, pos, data_len)
        t == ReadU8(input, s.pos)
    IN IF ~s.ok THEN s
       ELSE IF ~t.ok THEN Fail("IOError", t.pos)
       ELSE IF t.val # 0 THEN Fail("ExpectedBlockTerminator", t.pos)
       ELSE [ok |-> TRUE, pos |-> t.pos, val |-> ext]

\* parse_application_extension; val is None for NotKnown and Some(loop_count)
\* for NetscapeLooping(loop_count)
ParseApplicationExtension(input, pos) ==
    LET bs   == ReadU8(input, pos)
        name == ReadStr(input, bs.pos, 8)
        app_name == IF name.ok THEN Some(name.val) ELSE None
        a1   == ReadU8(input, name.pos)
        a2   == ReadU8(input, a1.pos)
        a3   == ReadU8(input, a2.pos)
        dl   == ReadU8(input, a3.pos)
        id   == ReadU8(input, dl.pos)
        lc   == ReadU16(input, id.pos)
    IN IF ~bs.ok THEN Fail("IOError", bs.pos)
       ELSE IF bs.val # 11 THEN UnexpectedLength(11, bs.val, bs.pos)
       ELSE IF ~a1.ok THEN Fail("IOError", a1.pos)
       ELSE IF ~a2.ok THEN Fail("IOError", a2.pos)
       ELSE IF ~a3.ok THEN Fail("IOError", a3.pos)
       ELSE IF ~dl.ok THEN Fail("IOError", dl.pos)
       ELSE IF dl.val = 0 THEN [ok |-> TRUE, pos |-> dl.pos, val |-> None]
       ELSE IF app_name = Some(NETSCAPE)
               /\ << a1.val, a2.val, a3.val >> = NETSCAPE_AUTH
               /\ dl.val >= 3
            THEN IF ~id.ok THEN Fail("IOError", id.pos)
                 ELSE IF dl.val # 3 \/ id.val # 1
                      THEN AppExtensionTail(input, id.pos, dl.val - 1, None)
                      ELSE IF ~lc.ok THEN Fail("IOError", lc.pos)
                           ELSE AppExtensionTail(input, lc.pos, dl.val - 3, Some(lc.val))
            ELSE AppExtensionTail(input, dl.pos, dl.val, None)

\* the disposal method taken from bits 3..2 only
DisposalOfTwoBits(packed_fields) ==
    LET m == (packed_fields \div 4) % 4
    IN CASE m = 1 -> "DoNotDispose"
         [] m = 2 -> "RestoreToBackgroundColor"
         [] m = 3 -> "RestoreToPrevious"
         [] OTHER -> "NoDisposalSpecified"

\* the disposal_method match of parse_graphic_control_extension
DisposalOf(packed_fields) ==
    LET m == (packed_fields \div 4) % 8
    IN CASE m = 1 -> "DoNotDispose"
         [] m = 2 -> "RestoreToBackgroundColor"
         [] m = 3 -> "RestoreToPrevious"
         [] OTHER -> "NoDisposalSpecified"

\* parse_graphic_control_extension
ParseGraphicControlExtension(input, pos) ==
    LET bs == ReadU8(input, pos)
        pf == ReadU8(input, bs.pos)
        transparent_color_flag == pf.val % 2 # 0
        dly == ReadU16(input, pf.pos)
        ti == ReadU8(input, dly.pos)
        after == IF transparent_color_flag THEN ti.pos ELSE SkipBytes(dly.pos, 1)
        term == ReadU8(input, after)
    IN IF ~bs.ok THEN Fail("IOError", bs.pos)
       ELSE IF bs.val # 4 THEN UnexpectedLength(4, bs.val, bs.pos)
       ELSE IF ~pf.ok THEN Fail("IOError", pf.pos)
       ELSE IF ~dly.ok THEN Fail("IOError", dly.pos)
       ELSE IF transparent_color_flag /\ ~ti.ok THEN Fail("IOError", ti.pos)
       ELSE IF ~term.ok THEN Fail("IOError", term.pos)
       ELSE IF term.val # 0 THEN Fail("ExpectedBlockTerminator", term.pos)
       ELSE [ok |-> TRUE, pos |-> term.pos,
             val |-> [disposal_method |-> DisposalOf(pf.val),
                      user_input |-> (pf.val \div 2) % 2 # 0,
                      transparent_color_index |->
                          IF transparent_color_flag THEN Some(ti.val) ELSE None,
                      delay |-> dly.val]]

-----------------------------------------------------------------------------
(* parser.rs: construct_next_frame.  A raster is the Vec<u8> of             *)
(* img_height * img_width * 3 bytes; raster index i is element i + 1.       *)

\* vec![0; n]
Zeros(n) == [i \in 1..n |-> 0]

\* the "for _ in 0..elts" loop pushing bg_color: elts pixels of one colour
Filled(elts, color) == [i \in 1..(elts * 3) |-> color[((i - 1) % 3) + 1]]

\* global_buffer[idx], [idx + 1], [idx + 2] = color.r, .g, .b
WritePixel(buf, idx, color) ==
    [buf EXCEPT ![idx + 1] = color[1], ![idx + 2] = color[2], ![idx + 3] = color[3]]

\* background_color, or DEFAULT_BACKGROUND_COLOR when it is None
BgOrDefault(background_color) ==
    IF background_color # None THEN background_color[1] ELSE DEFAULT_BACKGROUND_COLOR

\* a transparent pixel painted with the background colour over a base raster too
DrawPixelOverBase(buf, idx, elt, c) ==
    IF c.transparent_color_index = Some(elt)
    THEN WritePixel(buf, idx, BgOrDefault(c.background_color))
    ELSE WritePixel(buf, idx, c.current_color_table[elt + 1])

\* the match on transparent_color_index for one decoded index elt
DrawPixel(buf, idx, elt, c) ==
    IF c.transparent_color_index = Some(elt)
    THEN IF ~c.has_background_frame
         THEN WritePixel(buf, idx, BgOrDefault(c.background_color))
         ELSE buf
    ELSE WritePixel(buf, idx, c.current_color_table[elt + 1])

\* the position update after a pixel: the next (x_pos, y_pos, cycle, step),
\* or complete when the last line of the last pass is full
Advance(st, c) ==
    LET x == st.x_pos + 1
        y == st.y_pos + st.line_step
        cycle == st.interlacing_cycle + 1
    IN IF x <= c.max_pos_width
       THEN [st EXCEPT !.x_pos = x]
       ELSE IF y <= c.max_pos_height
            THEN [st EXCEPT !.x_pos = c.curr_block_left, !.y_pos = y]
            ELSE IF ~c.has_interlacing \/ st.interlacing_cycle >= 3
                 THEN [st EXCEPT !.x_pos = x, !.y_pos = y, !.complete = TRUE]
                 ELSE [st EXCEPT !.x_pos = c.curr_block_left,
                                 !.interlacing_cycle = cycle,
                                 !.y_pos = CASE cycle = 1 -> 4 [] cycle = 2 -> 2 [] OTHER -> 1,
                                 !.line_step = CASE cycle = 1 -> 8 [] cycle = 2 -> 4 [] OTHER -> 2]

\* what the transparency match does with the pixel: "kept", "background" or "color"
Drawn(elt, c) ==
    IF c.transparent_color_index = Some(elt)
    THEN IF c.has_background_frame THEN "kept" ELSE "background"
    ELSE "color"

\* a slice index of the pixel's match arm is out of range: Rust panics
IndexPanics(buf, idx, elt, c) ==
    \/ Drawn(elt, c) = "color" /\ elt >= Len(c.current_color_table)
    \/ Drawn(elt, c) # "kept" /\ idx + 2 >= Len(buf)

\* the colour index check that lets every index through
IsInvalidColorNever(elt, current_color_table) == FALSE

\* elt as usize >= current_color_table.len()
IsInvalidColor(elt, current_color_table) == elt >= Len(current_color_table)

\* the raster check one byte short: an index equal to the length passes
IsTooMuchPixelsOffByOne(curr_buffer_idx, global_buffer) ==
    curr_buffer_idx > Len(global_buffer)

\* (curr_buffer_idx + 2) >= global_buffer.len()
IsTooMuchPixels(curr_buffer_idx, global_buffer) ==
    curr_buffer_idx + 2 >= Len(global_buffer)

RECURSIVE PixelLoop(_, _, _, _)
\* the "for elt in decoded_data" loop; st.err is "" or the error returned
\* ("panic" for an index out of range); st.log has one record per pixel that
\* passed the two checks: its raster index, its colour index and what was drawn
PixelLoop(decoded_data, i, st, c) ==
    IF i > Len(decoded_data) \/ st.complete \/ st.err # "" THEN st
    ELSE LET elt == decoded_data[i]
             curr_buffer_idx == ((st.y_pos * c.img_width) + st.x_pos) * 3
             logged == [st EXCEPT !.log = Append(st.log,
                            [idx |-> curr_buffer_idx, elt |-> elt, drawn |-> Drawn(elt, c)])]
         IN IF IsInvalidColor(elt, c.current_color_table)
            THEN [st EXCEPT !.err = "InvalidColor"]
            ELSE IF IsTooMuchPixels(curr_buffer_idx, st.global_buffer)
                 THEN [st EXCEPT !.err = "TooMuchPixels"]
                 ELSE IF IndexPanics(st.global_buffer, curr_buffer_idx, elt, c)
                      THEN [logged EXCEPT !.err = "panic"]
                      ELSE PixelLoop(decoded_data, i + 1,
                                     Advance([logged EXCEPT !.global_buffer =
                                                 DrawPixel(st.global_buffer, curr_buffer_idx, elt, c)],
                                             c),
                                     c)

\* a failure together with the record of the pixels drawn before it
Logged(failure, log) ==
    [ok |-> FALSE, panic |-> failure.panic, err |-> failure.err, pos |-> failure.pos,
     log |-> log]

RECURSIVE SubBlockLoop(_, _, _, _, _)
\* the loop over the image data sub-blocks
SubBlockLoop(input, pos, decoder, st, c) ==
    LET sz == ReadU8(input, pos)
        data == ReadBytes(input, sz.pos, sz.val)
        dn == DecodeNext(decoder, data.val)
        st2 == PixelLoop(dn.out, 1, st, c)
        sk == SkipSubBlocks(input, data.pos)
    IN IF ~sz.ok THEN Logged(Fail("IOError", sz.pos), st.log)
       ELSE IF sz.val = 0
            THEN [ok |-> TRUE, pos |-> sz.pos, val |-> st.global_buffer, log |-> st.log]
       ELSE IF ~data.ok THEN Logged(Fail("IOError", data.pos), st.log)
       ELSE IF dn.panic THEN Logged(Panic(data.pos), st.log)
       ELSE IF st2.err = "panic" THEN Logged(Panic(data.pos), st2.log)
       ELSE IF st2.err # "" THEN Logged(Fail(st2.err, data.pos), st2.log)
       ELSE IF st2.complete
            THEN IF ~sk.ok THEN Logged(sk, st2.log)
                 ELSE [ok |-> TRUE, pos |-> sk.pos, val |-> st2.global_buffer,
                       log |-> st2.log]
            ELSE SubBlockLoop(input, data.pos, dn.dec, st2, c)

\* a degenerate frame that is white whatever the background colour
DegenerateFrameWhite(img_height, img_width, background_color) ==
    Filled(img_height * img_width, DEFAULT_BACKGROUND_COLOR)

\* a degenerate frame sized by the screen width alone
DegenerateFrameOneRow(img_height, img_width, background_color) ==
    Filled(img_width, BgOrDefault(background_color))

\* the degenerate rectangle branch: a raster of the background colour
DegenerateFrame(img_height, img_width, background_color) ==
    Filled(img_height * img_width, BgOrDefault(background_color))

\* construct_next_frame; the reader stands right after the Image Descriptor tag
\* the selection with the global table preferred to the local one
CurrentColorTableGlobalFirst(has_local_color_table, lct, global_color_table) ==
    IF global_color_table # None THEN global_color_table
    ELSE IF has_local_color_table THEN Some(lct) ELSE None

\* current_color_table: the local table when one was parsed, else the global
\* one; None stands for the NoColorTable return
CurrentColorTable(has_local_color_table, lct, global_color_table) ==
    IF has_local_color_table THEN Some(lct) ELSE global_color_table

ConstructNextFrame(input, pos, global_color_table, base_buffer, img_height, img_width, background_color, transparent_color_index) ==
    LET l == ReadU16(input, pos)
        t == ReadU16(input, l.pos)
        w == ReadU16(input, t.pos)
        h == ReadU16(input, w.pos)
        field == ReadU8(input, h.pos)
        has_local_color_table == (field.val \div 128) % 2 # 0
        has_interlacing == (field.val \div 64) % 2 # 0
        nb_color_entries == Pow2((field.val % 8) + 1)
        lct == ParseColorTable(input, field.pos, nb_color_entries)
        after_lct == IF has_local_color_table THEN lct.pos ELSE field.pos
        current_color_table == CurrentColorTable(has_local_color_table, lct.val,
                                                 global_color_table)
        has_background_frame == base_buffer # None
        global_buffer == IF base_buffer # None THEN base_buffer[1]
                         ELSE Zeros(img_height * img_width * 3)
        ics == ReadU8(input, after_lct)
        c == [img_width |-> img_width,
              current_color_table |-> current_color_table[1],
              transparent_color_index |-> transparent_color_index,
              has_background_frame |-> has_background_frame,
              background_color |-> background_color,
              has_interlacing |-> has_interlacing,
              curr_block_left |-> l.val,
              max_pos_width |-> w.val + l.val - 1,
              max_pos_height |-> h.val + t.val - 1]
        st == [x_pos |-> l.val, y_pos |-> t.val,
               interlacing_cycle |-> 0,
               line_step |-> IF has_interlacing THEN 8 ELSE 1,
               global_buffer |-> global_buffer,
               complete |-> FALSE, err |-> "", log |-> << >>]
    IN IF ~l.ok THEN Fail("IOError", l.pos)
       ELSE IF ~t.ok THEN Fail("IOError", t.pos)
       ELSE IF ~w.ok THEN Fail("IOError", w.pos)
       ELSE IF ~h.ok THEN Fail("IOError", h.pos)
       ELSE IF ~field.ok THEN Fail("IOError", field.pos)
       ELSE IF has_local_color_table /\ ~lct.ok THEN lct
       ELSE IF current_color_table = None THEN Fail("NoColorTable", after_lct)
       ELSE IF ~ics.ok THEN Fail("IOError", ics.pos)
       ELSE IF w.val = 0 \/ h.val = 0
            THEN [ok |-> TRUE, pos |-> ics.pos, log |-> << >>,
                  val |-> DegenerateFrame(img_height, img_width, background_color)]
       ELSE SubBlockLoop(input, ics.pos, LzwDecoderNew(ics.val), st, c)

-----------------------------------------------------------------------------
(* header.rs: parse_header                                                  *)

GIF_MAGIC == << 71, 73, 70 >>

VERSION_89a == << 56, 57, 97 >>

VERSION_87a == << 56, 55, 97 >>

\* a version test that knows "89a" only
IsSupportedVersion89aOnly(v) == v = VERSION_89a

\* the guard `v != "89a" && v != "87a"`, negated
IsSupportedVersion(v) == v = VERSION_89a \/ v = VERSION_87a

\* GifParsingError::UnsupportedVersion(version) returned at reader position pos
UnsupportedVersion(version, pos) ==
    [ok |-> FALSE, panic |-> FALSE, err |-> "UnsupportedVersion", pos |-> pos,
     version |-> version]

\* parse_header; val is the GifHeader
ParseHeader(input, pos) ==
    LET magic == ReadStr(input, pos, 3)
        version == ReadStr(input, magic.pos, 3)
        width == ReadU16(input, version.pos)
        height == ReadU16(input, width.pos)
        field == ReadU8(input, height.pos)
        has_global_color_table == (field.val \div 128) % 2 # 0
        nb_entries == Pow2((field.val % 8) + 1)
        bci == ReadU8(input, field.pos)
        par == ReadU8(input, bci.pos)
        gct == ParseColorTable(input, par.pos, nb_entries)
    IN IF ~magic.ok /\ magic.err = "FromUtf8Error" THEN Fail("NoGIFHeader", magic.pos)
       ELSE IF ~magic.ok THEN Fail("IOError", magic.pos)
       ELSE IF magic.val # GIF_MAGIC THEN Fail("NoGIFHeader", magic.pos)
       ELSE IF ~version.ok /\ version.err = "FromUtf8Error"
            THEN UnsupportedVersion(None, version.pos)
       ELSE IF ~version.ok THEN Fail("IOError", version.pos)
       ELSE IF ~IsSupportedVersion(version.val)
            THEN UnsupportedVersion(Some(version.val), version.pos)
       ELSE IF ~width.ok THEN Fail("IOError", width.pos)
       ELSE IF ~height.ok THEN Fail("IOError", height.pos)
       ELSE IF ~field.ok THEN Fail("IOError", field.pos)
       ELSE IF ~bci.ok THEN Fail("IOError", bci.pos)
       ELSE IF ~par.ok THEN Fail("IOError", par.pos)
       ELSE IF has_global_color_table /\ ~gct.ok THEN gct
       ELSE [ok |-> TRUE,
             pos |-> IF has_global_color_table THEN gct.pos ELSE par.pos,
             val |-> [width |-> width.val,
                      height |-> height.val,
                      nb_color_resolution_bits |-> ((field.val \div 16) % 8) + 1,
                      is_table_sorted |-> (field.val \div 8) % 2 # 0,
                      background_color_index |-> bci.val,
                      pixel_aspect_ratio |-> par.val,
                      global_color_table |->
                          IF has_global_color_table THEN Some(gct.val) ELSE None]]

\* a background colour index past the table taken for its last colour
BackgroundColorClamped(header) ==
    IF header.global_color_table # None
    THEN IF Len(header.global_color_table[1]) <= header.background_color_index
         THEN Some(header.global_color_table[1][Len(header.global_color_table[1])])
         ELSE Some(header.global_color_table[1][header.background_color_index + 1])
    ELSE None

\* the first statement of decode_and_render: the background colour
BackgroundColor(header) ==
    IF header.global_color_table # None
    THEN IF Len(header.global_color_table[1]) <= header.background_color_index
         THEN None
         ELSE Some(header.global_color_table[1][header.background_color_index + 1])
    ELSE None

-----------------------------------------------------------------------------
(* The inputs: GIF files built from a header, a bounded number of blocks    *)
(* and an ending.  Two families keep the number of files small: files of    *)
(* frames (Graphic Control Extensions and images) that end with the         *)
(* Trailer, and shorter files that mix in the other extensions, a last      *)
(* block that ends or derails the decode, and the three endings.            *)

\* the most blocks of a file of frames
MaxBlocks == 4

\* the most blocks of a file of the second family, before its last block
MaxExtBlocks == 2

\* the longest index sequence given to the LZW encoder
MaxDataLen == 4

U16(n) == << n % 256, n \div 256 >>

\* a sub-block chain holding `bytes` in one sub-block
SubBlocks(bytes) == << Len(bytes) >> \o bytes \o << 0 >>

\* four colours
ColorBytes == << 17, 18, 19,  33, 34, 35,  49, 50, 51,  65, 66, 67 >>

\* "GIF89a", a 2 x 2 screen, a 4 entry global colour table, background index 1
HeaderGct == GIF_MAGIC \o VERSION_89a \o U16(2) \o U16(2) \o << 129, 1, 0 >> \o ColorBytes

\* the same screen without a global colour table
HeaderNoGct == GIF_MAGIC \o VERSION_89a \o U16(2) \o U16(2) \o << 0, 0, 0 >>

Headers == { HeaderGct, HeaderNoGct }

GceBlock(packed, delay, index) ==
    << EXTENSION_INTRODUCER_ID, GRAPHIC_CONTROL_EXTENSION_LABEL, 4, packed >>
    \o U16(delay) \o << index, 0 >>

\* disposal 1 (DoNotDispose), no transparency, delay 5
GceKeep == GceBlock(4, 5, 0)

\* disposal 3 (RestoreToPrevious), transparent index 2, delay 7
GcePrev == GceBlock(13, 7, 2)

\* disposal 2 (RestoreToBackgroundColor), delay 0
GceBg == GceBlock(8, 0, 0)

\* disposal 0 (NoDisposalSpecified), user input, delay 258
GceNone == GceBlock(2, 258, 0)

ImageBlock(left, top, width, height, field, min_code_size, pixels) ==
    << IMAGE_DESCRIPTOR_BLOCK_ID >> \o U16(left) \o U16(top) \o U16(width) \o U16(height)
    \o << field, min_code_size >> \o SubBlocks(LzwEncode(min_code_size, pixels))

\* the whole screen, indices 0 1 2 3
ImgFull == ImageBlock(0, 0, 2, 2, 0, 2, << 0, 1, 2, 3 >>)

\* one pixel at (1, 1), index 3
ImgPixel == ImageBlock(1, 1, 1, 1, 0, 2, << 3 >>)

\* a zero-width image with its image data
ImgZero == ImageBlock(0, 0, 0, 2, 0, 2, << 0 >>)

\* an index past the colour table
ImgBadColor == ImageBlock(0, 0, 1, 1, 0, 3, << 5 >>)

\* a rectangle reaching below the screen
ImgTooMany == ImageBlock(0, 1, 2, 2, 0, 2, << 0, 0, 0, 0 >>)

\* the whole-screen image cut short: its last data byte and terminator are missing
ImgCut == SubSeq(ImgFull, 1, Len(ImgFull) - 2)

AppBlock(name, auth, chain) ==
    << EXTENSION_INTRODUCER_ID, APPLICATION_EXTENSION_LABEL, 11 >> \o name \o auth \o chain

\* NETSCAPE2.0 looping extensions, loop counts 0 and 258
Netscape0 == AppBlock(NETSCAPE, NETSCAPE_AUTH, SubBlocks(<< 1 >> \o U16(0)))

Netscape258 == AppBlock(NETSCAPE, NETSCAPE_AUTH, SubBlocks(<< 1 >> \o U16(258)))

\* another application ("XMP DataXMP") with a 3 byte data sub-block
AppUnknown ==
    AppBlock(<< 88, 77, 80, 32, 68, 97, 116, 97 >>, << 88, 77, 80 >>, SubBlocks(<< 7, 8, 9 >>))

\* a comment "Hi"
Comment == << EXTENSION_INTRODUCER_ID, COMMENT_EXTENSION_LABEL >> \o SubBlocks(<< 72, 105 >>)

\* a plain text extension with one character of text
PlainText ==
    << EXTENSION_INTRODUCER_ID, PLAIN_TEXT_EXTENSION_LABEL, 12 >>
    \o << 0, 0, 0, 0, 2, 0, 2, 0, 1, 1, 0, 1 >> \o SubBlocks(<< 65 >>)

UnknownExt == << EXTENSION_INTRODUCER_ID, 119 >>

UnknownBlock == << 153 >>

Trailer == << TRAILER_BLOCK_ID >>

\* the blocks of a file of frames
FrameBlocks == { GceKeep, GcePrev, GceBg, GceNone, ImgFull, ImgPixel }

\* the blocks of a file of the second family
ExtBlocks == { Netscape0, Netscape258, PlainText, GceKeep, ImgFull }

\* blocks kept for the last place (bytes after them are not read as they were
\* written); the GIF grammar allows the first three
LastBlocks ==
    { ImgZero, AppUnknown, Comment, ImgBadColor, ImgTooMany, ImgCut, UnknownExt, UnknownBlock }

WellFormedLast == { ImgZero, AppUnknown, Comment, << >> }

\* the file ends with the Trailer, or has a byte after it, or ends without one
Endings == { Trailer, Trailer \o << IMAGE_DESCRIPTOR_BLOCK_ID >>, << >> }

RECURSIVE Concat(_)
Concat(seqs) == IF seqs = << >> THEN << >> ELSE Head(seqs) \o Concat(Tail(seqs))

SeqsUpTo(blocks, n) == UNION { [1..k -> blocks] : k \in 0..n }

\* the files of frames: well-formed GIFs
FrameFiles ==
    { [bytes |-> HeaderGct \o Concat(bs) \o Trailer, wf |-> TRUE]
      : bs \in SeqsUpTo(FrameBlocks, MaxBlocks) }

\* the second family; wf: a well-formed GIF with a colour table for every image,
\* ending with its Trailer
ExtFiles ==
    { [bytes |-> h \o Concat(bs) \o l \o e,
       wf |-> h = HeaderGct /\ l \in WellFormedLast /\ e = Trailer]
      : h \in Headers, bs \in SeqsUpTo(ExtBlocks, MaxExtBlocks),
        l \in LastBlocks \cup { << >> }, e \in Endings }

Files == FrameFiles \cup ExtFiles

-----------------------------------------------------------------------------
(* The decode: parse_header, then decode_and_render.                        *)

VARIABLES
    input,                    \* the bytes of the file
    input_wf,                 \* the file is a well-formed GIF (history)
    pos,                      \* GifReader.pos
    status,                   \* "header", "running", "ok", "error", "panic" or
                              \* "exit" (std::process::exit after a failed send)
    err,                      \* the GifParsingError returned, "" when none
    header,                   \* Option of the GifHeader
    last_graphic_ext,         \* Option<GraphicControlExtension>
    next_frame_base_buffer,   \* Option<Vec<u8>>
    found_loop_attribute,
    events,                   \* the GifEvents sent to the event loop, in order
    gce_fresh,                \* a Graphic Control Extension was parsed since the
                              \* last composited image (history)
    sink_closed,              \* the event loop is gone: el_proxy.send_event fails
    composited                \* history, one record per image construct_next_frame
                              \* composited: the raster returned (frame), the
                              \* last_graphic_ext (gce) and next_frame_base_buffer
                              \* (base) it was called with, and gce_fresh (fresh)

VARIABLES
    lz_min,                   \* min_code_size of the decoder under test
    lz_data,                  \* the index sequence that was encoded
    lz_stream,                \* its compressed bytes
    lz_fed,                   \* how many of them decode_next was given
    lz_dec,                   \* the LzwDecoder
    lz_out,                   \* all bytes decode_next returned, in order
    lz_panic,                 \* decode_next hit a panic!
    lz_stopped                \* a decode_next call returned at a Stop code (history)

VARIABLES
    cf_call,                  \* Option of the arguments of a construct_next_frame call
    cf_ret                    \* Option of what the call returned

drvVars == << input, input_wf, pos, status, err, header, last_graphic_ext,
              next_frame_base_buffer, found_loop_attribute, events, gce_fresh,
              sink_closed, composited >>

lzVars == << lz_min, lz_data, lz_stream, lz_fed, lz_dec, lz_out, lz_panic, lz_stopped >>

cfVars == << cf_call, cf_ret >>

VARIABLES
    err_version,              \* the Option<String> of the UnsupportedVersion
                              \* returned by parse_header, None otherwise
    err_length                \* Option of << expected, got >> of the UnexpectedLength
                              \* returned by an extension parser, None otherwise

hdVars == << err_version, err_length >>

VARIABLES
    store,                    \* the FramesStore
    pending,                  \* the GifEvents sent but not yet handled, in order
    script,                   \* all the GifEvents of the run, in order (history)
    displayed                 \* the frames check returned as new_frame (history)

pbVars == << store, pending, script, displayed >>

vars == << drvVars, lzVars, cfVars, hdVars, pbVars >>

\* GifEvent values
GifFrameData(data, delay_until_next) ==
    [type |-> "GifFrameData", data |-> data, delay_until_next |-> delay_until_next]

LoopingInfo(value) == [type |-> "LoopingInfo", value |-> value]

GifFrameEnd == [type |-> "GifFrameEnd"]

DrvInit ==
    /\ \E f \in Files : input = f.bytes /\ input_wf = f.wf
    /\ pos = 0
    /\ status = "header"
    /\ err = ""
    /\ header = None
    /\ last_graphic_ext = None
    /\ next_frame_base_buffer = None
    /\ found_loop_attribute = FALSE
    /\ events = << >>
    /\ gce_fresh = FALSE
    /\ sink_closed = FALSE
    /\ composited = << >>

LzIdle ==
    /\ lz_min = 2
    /\ lz_data = << >>
    /\ lz_stream = << >>
    /\ lz_fed = 0
    /\ lz_dec = LzwDecoderNew(2)
    /\ lz_out = << >>
    /\ lz_panic = FALSE
    /\ lz_stopped = FALSE

HdIdle == err_version = None /\ err_length = None

\* FramesStore::new
FramesStoreNew ==
    [frames |-> << >>,
     curr_frame_idx |-> 0,
     curr_frame_duration |-> Some(0),
     last_frame_known |-> FALSE,
     left_loop_iterations |-> None]

\* no playback under test
PbIdle ==
    /\ store = FramesStoreNew
    /\ pending = << >>
    /\ script = << >>
    /\ displayed = << >>

\* `return Err(..)` or a panic!: the decode is over
Finish(r) ==
    /\ status' = IF r.panic THEN "panic" ELSE "error"
    /\ err' = r.err
    /\ pos' = r.pos

\* a failed send that is not looked at: the decode goes on
AfterSendIgnored(sent, then) == then

\* send_event(..).unwrap_or_else(|err| { eprintln!(..); std::process::exit(1) }):
\* the status after the sends of a block
AfterSend(sent, then) == IF sent THEN then ELSE "exit"

\* main: parse_header, whose error ends the program
ParseHeaderStep ==
    /\ status = "header"
    /\ LET Returned(r) ==
               /\ IF r.ok
                  THEN /\ header' = Some(r.val)
                       /\ pos' = r.pos
                       /\ status' = "running"
                       /\ err' = err
                  ELSE /\ Finish(r)
                       /\ header' = header
               /\ err_version' = IF "version" \in DOMAIN r THEN r.version ELSE None
       IN Returned(ParseHeader(input, pos))
    /\ UNCHANGED << input, input_wf, last_graphic_ext, next_frame_base_buffer,
                    found_loop_attribute, events, gce_fresh, sink_closed, composited, lzVars,
                    cfVars, err_length, pbVars >>

\* the payload of an UnexpectedLength error, None for any other result
LengthOf(r) == IF "expected" \in DOMAIN r THEN Some(<< r.expected, r.got >>) ELSE None

\* rdr.read_u8() at the top of the loop
Tag == ReadU8(input, pos)

\* rdr.read_u8() after an Extension Introducer
Label == ReadU8(input, Tag.pos)

\* (delay, transparent_color_index) taken from last_graphic_ext
GceSnapshot(gce) ==
    IF gce # None
    THEN [delay |-> Some(gce[1].delay),
          transparent_color_index |-> gce[1].transparent_color_index]
    ELSE [delay |-> None, transparent_color_index |-> None]

\* cloned_image_background
ClonedImageBackground(gce, base) ==
    IF gce # None /\ gce[1].disposal_method = "RestoreToPrevious" THEN base ELSE None

\* RestoreToPrevious keeping the frame just drawn
NextFrameBaseKeepsDrawn(gce, block, cloned_image_background) ==
    IF gce = None THEN None
    ELSE CASE gce[1].disposal_method
                  \in { "DoNotDispose", "NoDisposalSpecified", "RestoreToPrevious" } ->
                Some(block)
           [] OTHER -> None

\* the base buffer for the next frame according to the disposal method
NextFrameBase(gce, block, cloned_image_background) ==
    IF gce = None THEN None
    ELSE CASE gce[1].disposal_method \in { "DoNotDispose", "NoDisposalSpecified" } ->
                Some(block)
           [] gce[1].disposal_method = "RestoreToPrevious" -> cloned_image_background
           [] OTHER -> None

\* the new frame sent ahead of the events already sent
ImageEventsFront(evs, block, delay) ==
    IF block.ok THEN << GifFrameData(block.val, delay) >> \o evs ELSE evs

\* a frame sent although construct_next_frame failed
ImageEventsOnError(evs, block, delay) ==
    Append(evs, GifFrameData(IF block.ok THEN block.val ELSE << >>, delay))

\* the events after an Image Descriptor: construct_next_frame(..)? then send_event
ImageEvents(evs, block, delay) ==
    IF block.ok THEN Append(evs, GifFrameData(block.val, delay)) ELSE evs

\* GifFrameEnd sent before the looping information
TrailerEventsEndFirst(evs, found) ==
    IF ~found
    THEN Append(Append(evs, GifFrameEnd), LoopingInfo(None))
    ELSE Append(evs, GifFrameEnd)

\* LoopingInfo(None) sent whatever found_loop_attribute is
TrailerEventsAlwaysNone(evs, found) ==
    Append(Append(evs, LoopingInfo(None)), GifFrameEnd)

\* the events after the Trailer
TrailerEvents(evs, found) ==
    IF ~found
    THEN Append(Append(evs, LoopingInfo(None)), GifFrameEnd)
    ELSE Append(evs, GifFrameEnd)

\* the events after an Application Extension was parsed
ApplicationEvents(evs, extension) ==
    IF extension # None THEN Append(evs, LoopingInfo(extension)) ELSE evs

ImageDescriptorStep ==
    /\ status = "running"
    /\ Tag.ok
    /\ Tag.val = IMAGE_DESCRIPTOR_BLOCK_ID
    /\ LET snap == GceSnapshot(last_graphic_ext)
           cloned == ClonedImageBackground(last_graphic_ext, next_frame_base_buffer)
           \* what follows the call, on the Result `block` of construct_next_frame
           Constructed(block) ==
               /\ events' = IF sink_closed THEN events
                             ELSE ImageEvents(events, block, snap.delay)
               /\ IF block.ok
                  THEN /\ next_frame_base_buffer' =
                              NextFrameBase(last_graphic_ext, block.val, cloned)
                       /\ composited' = IF sink_closed THEN composited
                                         ELSE Append(composited,
                                                     [frame |-> block.val,
                                                      gce |-> last_graphic_ext,
                                                      base |-> next_frame_base_buffer,
                                                      fresh |-> gce_fresh])
                       /\ gce_fresh' = FALSE
                       /\ pos' = block.pos
                       /\ status' = AfterSend(~sink_closed, "running")
                       /\ err' = err
                  ELSE /\ Finish(block)
                       /\ UNCHANGED << next_frame_base_buffer, composited, gce_fresh >>
       IN Constructed(ConstructNextFrame(input, Tag.pos, header[1].global_color_table,
                                         next_frame_base_buffer,
                                         header[1].height, header[1].width,
                                         BackgroundColor(header[1]),
                                         snap.transparent_color_index))
    /\ UNCHANGED << input, input_wf, header, last_graphic_ext, found_loop_attribute,
                    sink_closed, lzVars, cfVars, hdVars, pbVars >>

TrailerStep ==
    /\ status = "running"
    /\ Tag.ok
    /\ Tag.val = TRAILER_BLOCK_ID
    /\ events' = IF sink_closed THEN events
                  ELSE TrailerEvents(events, found_loop_attribute)
    /\ status' = AfterSend(~sink_closed, "ok")
    /\ pos' = Tag.pos
    /\ UNCHANGED << input, input_wf, err, header, last_graphic_ext, next_frame_base_buffer,
                    found_loop_attribute, gce_fresh, sink_closed, composited, lzVars, cfVars,
                    hdVars, pbVars >>

\* an extension whose label could be read
IsExtension(label) ==
    /\ status = "running"
    /\ Tag.ok
    /\ Tag.val = EXTENSION_INTRODUCER_ID
    /\ Label.ok
    /\ Label.val = label

GraphicControlExtensionStep ==
    /\ IsExtension(GRAPHIC_CONTROL_EXTENSION_LABEL)
    /\ LET Returned(r) ==
               /\ IF r.ok
                  THEN /\ last_graphic_ext' = Some(r.val)
                       /\ gce_fresh' = TRUE
                       /\ pos' = r.pos
                       /\ UNCHANGED << status, err >>
                  ELSE /\ Finish(r)
                       /\ UNCHANGED << last_graphic_ext, gce_fresh >>
               /\ err_length' = LengthOf(r)
       IN Returned(ParseGraphicControlExtension(input, Label.pos))
    /\ UNCHANGED << input, input_wf, header, next_frame_base_buffer, found_loop_attribute,
                    events, sink_closed, composited, lzVars, cfVars, err_version, pbVars >>

ApplicationExtensionStep ==
    /\ IsExtension(APPLICATION_EXTENSION_LABEL)
    /\ LET Returned(r) ==
               /\ IF r.ok
                  THEN /\ found_loop_attribute' = (found_loop_attribute \/ r.val # None)
                       /\ events' = IF sink_closed THEN events
                                     ELSE ApplicationEvents(events, r.val)
                       /\ pos' = r.pos
                       /\ status' = AfterSend(r.val = None \/ ~sink_closed, "running")
                       /\ err' = err
                  ELSE /\ Finish(r)
                       /\ UNCHANGED << found_loop_attribute, events >>
               /\ err_length' = LengthOf(r)
       IN Returned(ParseApplicationExtension(input, Label.pos))
    /\ UNCHANGED << input, input_wf, header, last_graphic_ext, next_frame_base_buffer,
                    gce_fresh, sink_closed, composited, lzVars, cfVars, err_version, pbVars >>

\* the Comment Extension arm: skip_sub_blocks, then one more byte is read and
\* must be 0, or the thread panics
CommentExtension(bytes, p) ==
    LET s == SkipSubBlocks(bytes, p)
        t == ReadU8(bytes, s.pos)
    IN IF ~s.ok THEN s
       ELSE IF ~t.ok THEN Fail("IOError", t.pos)
       ELSE IF t.val # 0 THEN Panic(t.pos)
       ELSE [ok |-> TRUE, pos |-> t.pos]

CommentExtensionStep ==
    /\ IsExtension(COMMENT_EXTENSION_LABEL)
    /\ LET r == CommentExtension(input, Label.pos)
       IN IF r.ok
          THEN /\ pos' = r.pos
               /\ UNCHANGED << status, err >>
          ELSE Finish(r)
    /\ UNCHANGED << input, input_wf, header, last_graphic_ext, next_frame_base_buffer,
                    found_loop_attribute, events, gce_fresh, sink_closed, composited, lzVars, cfVars,
                    hdVars, pbVars >>

PlainTextExtensionStep ==
    /\ IsExtension(PLAIN_TEXT_EXTENSION_LABEL)
    /\ LET Returned(r) ==
               /\ IF r.ok
                  THEN /\ pos' = r.pos
                       /\ UNCHANGED << status, err >>
                  ELSE Finish(r)
               /\ err_length' = LengthOf(r)
       IN Returned(SkipPlainTextExtension(input, Label.pos))
    /\ UNCHANGED << input, input_wf, header, last_graphic_ext, next_frame_base_buffer,
                    found_loop_attribute, events, gce_fresh, sink_closed, composited, lzVars,
                    cfVars, err_version, pbVars >>

KnownLabels ==
    { GRAPHIC_CONTROL_EXTENSION_LABEL, APPLICATION_EXTENSION_LABEL,
      COMMENT_EXTENSION_LABEL, PLAIN_TEXT_EXTENSION_LABEL }

UnrecognizedExtensionStep ==
    /\ status = "running"
    /\ Tag.ok
    /\ Tag.val = EXTENSION_INTRODUCER_ID
    /\ Label.ok
    /\ Label.val \notin KnownLabels
    /\ Finish(Fail("UnrecognizedExtension", Label.pos))
    /\ UNCHANGED << input, input_wf, header, last_graphic_ext, next_frame_base_buffer,
                    found_loop_attribute, events, gce_fresh, sink_closed, composited, lzVars, cfVars,
                    hdVars, pbVars >>

KnownTags == { IMAGE_DESCRIPTOR_BLOCK_ID, TRAILER_BLOCK_ID, EXTENSION_INTRODUCER_ID }

UnrecognizedBlockStep ==
    /\ status = "running"
    /\ Tag.ok
    /\ Tag.val \notin KnownTags
    /\ Finish(Fail("UnrecognizedBlock", Tag.pos))
    /\ UNCHANGED << input, input_wf, header, last_graphic_ext, next_frame_base_buffer,
                    found_loop_attribute, events, gce_fresh, sink_closed, composited, lzVars, cfVars,
                    hdVars, pbVars >>

\* rdr.read_u8()? fails for the block tag or for the extension label
TagReadFails ==
    /\ status = "running"
    /\ ~(Tag.ok /\ (Tag.val = EXTENSION_INTRODUCER_ID => Label.ok))
    /\ Finish(Fail("IOError", IF Tag.ok THEN Label.pos ELSE Tag.pos))
    /\ UNCHANGED << input, input_wf, header, last_graphic_ext, next_frame_base_buffer,
                    found_loop_attribute, events, gce_fresh, sink_closed, composited, lzVars, cfVars,
                    hdVars, pbVars >>

\* no construct_next_frame call under test
CfIdle ==
    /\ cf_call = None
    /\ cf_ret = None

Init == DrvInit /\ LzIdle /\ CfIdle /\ HdIdle /\ PbIdle

Terminated == status \in { "ok", "error", "panic" }

Next ==
    \/ ParseHeaderStep
    \/ ImageDescriptorStep
    \/ TrailerStep
    \/ GraphicControlExtensionStep
    \/ ApplicationExtensionStep
    \/ CommentExtensionStep
    \/ PlainTextExtensionStep
    \/ UnrecognizedExtensionStep
    \/ UnrecognizedBlockStep
    \/ TagReadFails

Spec == Init /\ [][Next]_vars

-----------------------------------------------------------------------------
(* The LZW decoder on its own: an index sequence is encoded by the          *)
(* conforming encoder and the compressed bytes are given to one LzwDecoder  *)
(* in consecutive decode_next calls, cut at any byte boundaries.            *)

MinCodeSizes == { 2, 3, 8 }

\* the indices used: the smallest two and the largest of 0..2^min_code_size - 1
LzAlphabet(min_code_size) == { 0, 1, Pow2(min_code_size) - 1 }

DrvIdle ==
    /\ input = << >>
    /\ input_wf = FALSE
    /\ pos = 0
    /\ status = "idle"
    /\ err = ""
    /\ header = None
    /\ last_graphic_ext = None
    /\ next_frame_base_buffer = None
    /\ found_loop_attribute = FALSE
    /\ events = << >>
    /\ gce_fresh = FALSE
    /\ sink_closed = FALSE
    /\ composited = << >>

LzInit ==
    /\ lz_min \in MinCodeSizes
    /\ lz_data \in SeqsUpTo(LzAlphabet(lz_min), MaxDataLen)
    /\ lz_stream = LzwEncode(lz_min, lz_data)
    /\ lz_fed = 0
    /\ lz_dec = LzwDecoderNew(lz_min)
    /\ lz_out = << >>
    /\ lz_panic = FALSE
    /\ lz_stopped = FALSE

\* one decode_next call on the next n bytes of the stream
DecodeNextStep ==
    /\ ~lz_panic
    /\ \E n \in 1..(Len(lz_stream) - lz_fed) :
          LET r == DecodeNext(lz_dec, SubSeq(lz_stream, lz_fed + 1, lz_fed + n))
          IN /\ lz_dec' = r.dec
             /\ lz_out' = lz_out \o r.out
             /\ lz_panic' = r.panic
             /\ lz_stopped' = (lz_stopped \/ r.stop)
             /\ lz_fed' = lz_fed + n
    /\ UNCHANGED << lz_min, lz_data, lz_stream, drvVars, cfVars, hdVars, pbVars >>

InitLzw == DrvIdle /\ LzInit /\ CfIdle /\ HdIdle /\ PbIdle

NextLzw == DecodeNextStep

SpecLzw == InitLzw /\ [][NextLzw]_vars

-----------------------------------------------------------------------------
(* The LZW decoder on any byte stream: the compressed bytes are drawn from  *)
(* a few bytes that hold, for 3-bit codes read least significant bit first, *)
(* roots, the Clear code 4 and the Stop code 5:                             *)
(*   0 = (0, 0, ..)   5 = (Stop, 0, ..)   8 = (0, 1, ..)                    *)
(*  12 = (Clear, 1, ..)   40 = (0, Stop, ..)   44 = (Clear, Stop, ..)       *)

StreamBytes == { 0, 5, 8, 12, 40, 44 }

\* the longest compressed stream
MaxStreamLen == 3

StreamInit ==
    /\ lz_min = 2
    /\ lz_data = << >>
    /\ lz_stream \in SeqsUpTo(StreamBytes, MaxStreamLen)
    /\ lz_fed = 0
    /\ lz_dec = LzwDecoderNew(lz_min)
    /\ lz_out = << >>
    /\ lz_panic = FALSE
    /\ lz_stopped = FALSE

InitStream == DrvIdle /\ StreamInit /\ CfIdle /\ HdIdle /\ PbIdle

NextStream == DecodeNextStep

SpecStream == InitStream /\ [][NextStream]_vars

-----------------------------------------------------------------------------
(* construct_next_frame on its own: one call on the bytes of an image, for  *)
(* rectangles in and across the screen, interlaced or not, with and without *)
(* a base raster, transparent index, background colour and colour tables.   *)

\* the largest left offset of a rectangle
MaxLeft == 1

\* the largest top offset of a rectangle
MaxTop == 2

\* a base raster of `elts` pixels, no two bytes of a pixel alike
BaseRaster(elts) == [i \in 1..(elts * 3) |-> 200 + (i % 50)]

\* the bytes of a local colour table of n colours
LocalColorBytes(n) == [i \in 1..(3 * n) |-> 100 + i]

\* the global colour table given to the call: four colours
GlobalColors == Triplets(ColorBytes)

\* a global colour table of eight colours
GlobalColors8 == Triplets(ColorBytes \o [i \in 1..12 |-> 80 + i])

RECURSIVE OneByteBlocks(_)
\* a sub-block chain with every byte in a sub-block of its own
OneByteBlocks(bytes) ==
    IF bytes = << >> THEN << 0 >>
    ELSE << 1, Head(bytes) >> \o OneByteBlocks(Tail(bytes))

\* the arguments of a call and the bytes the reader holds: the descriptor after
\* its tag, the local colour table if lct_bits >= 0, the image data and a Trailer
FrameCall(screen, rect, has_interlacing, lct_bits, gct, base, bg, tci, min_code_size, indices, split) ==
    LET field == (IF lct_bits >= 0 THEN 128 + lct_bits ELSE 0)
                 + (IF has_interlacing THEN 64 ELSE 0)
        stream == LzwEncode(min_code_size, indices)
    IN [img_width |-> screen[1], img_height |-> screen[2],
        left |-> rect[1], top |-> rect[2], width |-> rect[3], height |-> rect[4],
        has_interlacing |-> has_interlacing,
        lct_bits |-> lct_bits,
        global_color_table |-> gct,
        base_buffer |-> base,
        background_color |-> bg,
        transparent_color_index |-> tci,
        indices |-> indices,
        split |-> split,
        bytes |-> U16(rect[1]) \o U16(rect[2]) \o U16(rect[3]) \o U16(rect[4])
                  \o << field >>
                  \o (IF lct_bits >= 0 THEN LocalColorBytes(Pow2(lct_bits + 1)) ELSE << >>)
                  \o << min_code_size >>
                  \o (IF split THEN OneByteBlocks(stream) ELSE SubBlocks(stream))
                  \o Trailer]

\* the screen of the calls that vary the rectangle: 2 pixels wide, 9 high
GeoScreen == << 2, 9 >>

Heights == { 0, 1, 2, 4, 5, 8 }

\* n indices, the k-th row of `width` pixels decoded holding the index k % 8
RowIndices(width, n) == [i \in 1..n |-> IF width = 0 THEN 0 ELSE ((i - 1) \div width) % 8]

\* calls over the rectangles: every pixel of the rectangle is in the data, and
\* one more when extra = 1
GeoCalls ==
    { FrameCall(GeoScreen, << l, t, w, h >>, il, -1, Some(GlobalColors8),
                IF b THEN Some(BaseRaster(GeoScreen[1] * GeoScreen[2])) ELSE None,
                Some(<< 33, 34, 35 >>), None, 3, RowIndices(w, w * h + extra), FALSE)
      : l \in 0..MaxLeft, t \in 0..MaxTop, w \in 0..2, h \in Heights,
        il \in BOOLEAN, b \in BOOLEAN, extra \in 0..1 }

\* the screen of the calls that vary colours: 2 x 2
ColScreen == << 2, 2 >>

ColRects == { << 0, 0, 2, 2 >>, << 1, 1, 1, 1 >>, << 0, 0, 0, 2 >>, << 1, 0, 2, 0 >> }

\* index sequences: within four colours, with a repeat, and with the index 5
ColIndices == { << 0, 1, 2, 3 >>, << 1, 1, 0, 1 >>, << 0, 5, 1, 1 >> }

\* calls over the colour tables (local table of 4 colours or none, global
\* table or none), the base, the background and the transparent index
ColCalls ==
    { FrameCall(ColScreen, r, FALSE, lct, gct,
                IF b THEN Some(BaseRaster(ColScreen[1] * ColScreen[2])) ELSE None,
                bg, tci, 3, SubSeq(ix, 1, IF r[3] * r[4] = 1 THEN 2 ELSE 4), split)
      : r \in ColRects, lct \in { -1, 1 }, gct \in { None, Some(GlobalColors) },
        b \in BOOLEAN, bg \in { None, Some(<< 7, 8, 9 >>) },
        tci \in { None, Some(1), Some(5) }, ix \in ColIndices, split \in BOOLEAN }

FrameCalls == GeoCalls \cup ColCalls

CfInit ==
    /\ cf_call \in { Some(call) : call \in FrameCalls }
    /\ cf_ret = None

\* the call: construct_next_frame(rdr, ..) on a reader at position 0
ConstructNextFrameStep ==
    /\ cf_call # None
    /\ cf_ret = None
    /\ LET a == cf_call[1]
           Returned(r) == Some([ok |-> r.ok,
                                err |-> IF r.ok THEN "" ELSE r.err,
                                pos |-> r.pos,
                                val |-> IF r.ok THEN r.val ELSE << >>,
                                log |-> IF "log" \in DOMAIN r THEN r.log ELSE << >>])
       IN cf_ret' = Returned(ConstructNextFrame(a.bytes, 0, a.global_color_table,
                                                a.base_buffer, a.img_height, a.img_width,
                                                a.background_color,
                                                a.transparent_color_index))
    /\ UNCHANGED << cf_call, drvVars, lzVars, hdVars, pbVars >>

InitFrame == DrvIdle /\ LzIdle /\ CfInit /\ HdIdle /\ PbIdle

NextFrame == ConstructNextFrameStep

SpecFrame == InitFrame /\ [][NextFrame]_vars

-----------------------------------------------------------------------------
(* Properties of the decode driver                                          *)

IsFrame(e) == e.type = "GifFrameData"

IsLooping(e) == e.type = "LoopingInfo"

IsEnd(e) == e.type = "GifFrameEnd"

Count(evs, P(_)) == Cardinality({ i \in 1..Len(evs) : P(evs[i]) })

\* the frames sent, in order
Frames(evs) == SelectSeq(evs, IsFrame)

\* the looping informations sent, in order
Loopings(evs) == SelectSeq(evs, IsLooping)

\* C1: in a run that reached the Trailer, GifFrameEnd was sent exactly once
\* and is the last event sent (no GifFrameData and no LoopingInfo follows it),
\* and the reader stands right after the Trailer byte: no later byte was read.
\* GifFrameEnd is sent in no other run.
C1_FrameEndIsLast ==
    /\ \A i \in 1..Len(events) : IsEnd(events[i]) => i = Len(events)
    /\ status = "ok" => /\ events # << >>
                        /\ IsEnd(events[Len(events)])
                        /\ pos >= 1
                        /\ pos <= Len(input)
                        /\ input[pos] = TRAILER_BLOCK_ID
    /\ status # "ok" => Count(events, IsEnd) = 0

\* a decode that sent frames and ended at a Trailer followed by another byte
C1_Witness ==
    /\ status = "ok"
    /\ pos < Len(input)
    /\ Count(events, IsFrame) >= 1
    /\ Count(events, IsLooping) >= 1

\* C2: frames are emitted in file order: the frames sent are, one for one and
\* in the same order, the rasters composited from the Image Descriptors met
\* so far, each sent with the delay of the Graphic Control Extension the
\* driver held.
C2_FramesInFileOrder ==
    /\ Len(Frames(events)) = Len(composited)
    /\ \A k \in 1..Len(composited) :
          /\ Frames(events)[k].data = composited[k].frame
          /\ Frames(events)[k].delay_until_next = GceSnapshot(composited[k].gce).delay

\* three frames sent, not all the same
C2_Witness ==
    /\ Len(composited) = 3
    /\ Len(Frames(events)) = 3
    /\ composited[1].frame # composited[2].frame
    /\ composited[2].frame # composited[3].frame

\* C3: over a decode that reached the Trailer exactly one LoopingInfo was
\* sent, whatever the number of Application Extensions.
C3_ExactlyOneLoopingInfo ==
    status = "ok" => Count(events, IsLooping) = 1

RECURSIVE NetscapeCounts(_, _, _)
\* the loop counts of the NETSCAPE2.0 looping extensions that lie in the
\* first `upto` bytes of `bytes`, in file order, found by their byte pattern
NetscapeCounts(bytes, from, upto) ==
    LET pattern == << EXTENSION_INTRODUCER_ID, APPLICATION_EXTENSION_LABEL, 11 >>
                   \o NETSCAPE \o NETSCAPE_AUTH \o << 3, 1 >>
    IN IF from + Len(pattern) + 3 > upto + 1 \/ upto > Len(bytes) THEN << >>
       ELSE IF SubSeq(bytes, from, from + Len(pattern) - 1) = pattern
                  /\ bytes[from + Len(pattern) + 2] = 0
            THEN << bytes[from + Len(pattern)] + 256 * bytes[from + Len(pattern) + 1] >>
                 \o NetscapeCounts(bytes, from + Len(pattern) + 3, upto)
            ELSE NetscapeCounts(bytes, from + 1, upto)

\* the values of the LoopingInfo(Some(n)) events, in order
SomeCounts(evs) ==
    LET somes == SelectSeq(Loopings(evs), LAMBDA e : e.value # None)
    IN [k \in 1..Len(somes) |-> somes[k].value[1]]

\* C4: LoopingInfo(None) is sent, at the Trailer and right before
\* GifFrameEnd, if and only if no NETSCAPE2.0 looping extension was parsed
\* before; each such extension with loop count n has LoopingInfo(Some(n)) sent
\* as soon as the reader is past it, and no LoopingInfo(None) follows.
C4_LoopingInfoNone ==
    LET nones == { i \in 1..Len(events) : events[i] = LoopingInfo(None) }
        parsed == NetscapeCounts(input, 1, IF pos <= Len(input) THEN pos ELSE Len(input))
    IN /\ SomeCounts(events) = parsed
       /\ found_loop_attribute <=> parsed # << >>
       /\ status = "ok" =>
             nones = IF parsed = << >> THEN { Len(events) - 1 } ELSE { }
       /\ status # "ok" => nones = { }

\* the decode of a file with two looping extensions has ended at its Trailer
C4_Witness ==
    /\ status = "ok"
    /\ SomeCounts(events) = << 0, 258 >>
    /\ Count(events, IsLooping) = 2

\* C5: a Graphic Control Extension applies to the first image after it only:
\* an image with no new extension since the image before it is sent with
\* delay None, is composited without transparent index (as if from
\* last_graphic_ext = None) and leaves next_frame_base_buffer = None.
C5_GceAppliesOnce ==
    \A k \in 1..Len(composited) :
        ~composited[k].fresh =>
            /\ Frames(events)[k].delay_until_next = None
            /\ composited[k].gce = None
            /\ (k = Len(composited) => next_frame_base_buffer = None)

C7_NoEventOnError ==
    [][status' \in { "error", "panic" } => events' = events]_vars

\* compositing failed after a frame was sent
C7_Witness ==
    /\ status = "error"
    /\ err = "TooMuchPixels"
    /\ Count(events, IsFrame) = Len(composited)
    /\ Len(composited) = 2

\* C8: every frame sent and every next_frame_base_buffer kept holds exactly
\* width * height * 3 bytes.
C8_RasterLength ==
    header # None =>
        LET n == header[1].width * header[1].height * 3
        IN /\ \A i \in 1..Len(events) : IsFrame(events[i]) => Len(events[i].data) = n
           /\ next_frame_base_buffer # None => Len(next_frame_base_buffer[1]) = n

\* the frame of a zero-sized image, filled with the background colour, was
\* sent and is kept as the next base
C8_Witness ==
    /\ composited # << >>
    /\ composited[Len(composited)].frame = Filled(4, << 33, 34, 35 >>)
    /\ next_frame_base_buffer = Some(Filled(4, << 33, 34, 35 >>))
    /\ Count(events, IsFrame) >= 2

\* C9: the decode of a well-formed file succeeds and leaves the reader at the
\* end of the file.
C9_WellFormedDecodes ==
    input_wf /\ Terminated => status = "ok" /\ pos = Len(input)

-----------------------------------------------------------------------------
(* Properties of the LZW decoder                                            *)

\* C10: once the whole stream of a conforming encoder was given to a fresh
\* decoder, the bytes decoded are the index sequence that was encoded, and
\* no panic was hit on the way.
C10_RoundTrip ==
    /\ ~lz_panic
    /\ lz_fed = Len(lz_stream) => lz_out = lz_data

\* a stream whose code width grew was decoded whole, with a code that was
\* the next one to be assigned
C10_Witness ==
    /\ lz_fed = Len(lz_stream)
    /\ Len(lz_data) = MaxDataLen
    /\ lz_data = [i \in 1..MaxDataLen |-> 1]
    /\ lz_dec.dict.curr_code_size > lz_min + 1
    /\ lz_out = lz_data

\* the output of one decode_next call of a fresh decoder on the whole stream
WholeDecode == DecodeNext(LzwDecoderNew(lz_min), lz_stream)

\* C11: however the stream was cut into chunks, once it was all given to the
\* decoder the bytes decoded are those of a single decode_next call on the
\* whole stream.
C11_ChunkingInvariance ==
    lz_fed = Len(lz_stream) /\ ~lz_panic /\ ~WholeDecode.panic
        => lz_out = WholeDecode.out

\* C12: once a decode_next call has met a Stop code, no later call on the
\* same decoder emits a byte.
C12_StopIsFinal ==
    [][lz_stopped => lz_out' = lz_out]_vars

-----------------------------------------------------------------------------
(* Properties of construct_next_frame                                       *)

Min(a, b) == IF a <= b THEN a ELSE b

\* the colour table in effect for the image of a call: the local one when the
\* descriptor flags it, else the global one (empty when there is none)
TableInEffect(a) ==
    IF a.lct_bits >= 0 THEN Triplets(LocalColorBytes(Pow2(a.lct_bits + 1)))
    ELSE IF a.global_color_table # None THEN a.global_color_table[1]
    ELSE << >>

HasTable(a) == a.lct_bits >= 0 \/ a.global_color_table # None

Degenerate(a) == a.width = 0 \/ a.height = 0

\* the places, among the first n indices of the image data, of the indices
\* that are no index of the colour table in effect
BadIndices(a, n) ==
    { k \in 1..Min(n, Len(a.indices)) : a.indices[k] >= Len(TableInEffect(a)) }

RasterLen(a) ==
    IF a.base_buffer # None THEN Len(a.base_buffer[1]) ELSE a.img_height * a.img_width * 3

\* C14: no pixel is drawn at a raster index at or past the raster length and
\* no slice index is ever out of range: the call returns TooMuchPixels
\* instead.  For a rectangle read row after row that stays left of the
\* screen's right edge, TooMuchPixels is returned exactly when the image data
\* holds a pixel of a row below the screen.
C14_NoWritePastRaster ==
    cf_ret # None =>
        LET a == cf_call[1]
            r == cf_ret[1]
            taken == Min(Len(a.indices), a.width * a.height)
        IN /\ \A k \in 1..Len(r.log) :
                 r.log[k].idx >= 0 /\ r.log[k].idx + 2 < RasterLen(a)
           /\ r.err # "panic"
           /\ r.ok /\ ~Degenerate(a) => Len(r.val) = RasterLen(a)
           /\ (/\ HasTable(a) /\ ~Degenerate(a) /\ ~a.has_interlacing
               /\ a.left + a.width <= a.img_width
               /\ BadIndices(a, Len(a.indices)) = { })
                  => (r.err = "TooMuchPixels" <=> taken > (a.img_height - a.top) * a.width)

\* an interlaced image failed with TooMuchPixels after pixels were drawn
C14_Witness ==
    /\ cf_ret # None
    /\ cf_ret[1].err = "TooMuchPixels"
    /\ cf_call[1].has_interlacing
    /\ Len(cf_ret[1].log) >= 2

\* the three bytes of the pixel (x, y) of a raster of the call's screen
PixelAt(raster, a, x, y) ==
    LET i == (y * a.img_width + x) * 3
    IN << raster[i + 1], raster[i + 2], raster[i + 3] >>

\* the raster the call starts from
StartRaster(a) ==
    IF a.base_buffer # None THEN a.base_buffer[1] ELSE Zeros(a.img_height * a.img_width * 3)

InRect(a, x, y) ==
    /\ a.left <= x /\ x < a.left + a.width
    /\ a.top <= y /\ y < a.top + a.height

\* C15: in the frame returned for a non-degenerate image every pixel outside
\* the image rectangle has the value it had in the base raster, or zero
\* when there is no base.
C15_NothingOutsideRect ==
    cf_ret # None /\ cf_ret[1].ok /\ ~Degenerate(cf_call[1]) =>
        LET a == cf_call[1]
        IN \A x \in 0..(a.img_width - 1), y \in 0..(a.img_height - 1) :
              ~InRect(a, x, y) =>
                  PixelAt(cf_ret[1].val, a, x, y) = PixelAt(StartRaster(a), a, x, y)

\* the rectangle lies inside the screen
InsideScreen(a) == a.left + a.width <= a.img_width /\ a.top + a.height <= a.img_height

\* the pixel (x, y) of the frame of a rectangle read row after row: the k-th
\* index of the image data belongs to the k-th pixel of the rectangle
ExpectedPixel(a, x, y) ==
    LET k == (y - a.top) * a.width + (x - a.left) + 1
        idx == a.indices[k]
    IN IF ~InRect(a, x, y) \/ k > Len(a.indices) THEN PixelAt(StartRaster(a), a, x, y)
       ELSE IF a.transparent_color_index = << idx >>
            THEN IF a.base_buffer # None THEN PixelAt(a.base_buffer[1], a, x, y)
                 ELSE IF a.background_color # None THEN a.background_color[1]
                 ELSE << 255, 255, 255 >>
            ELSE TableInEffect(a)[idx + 1]

\* C16: in the frame of a rectangle inside the screen, read row after row,
\* the pixel of a decoded index equal to the transparent index keeps its base
\* value, or is the background colour (white when there is none) when there is
\* no base; the pixel of any other index is that entry of the colour table;
\* each index, transparent or not, takes one pixel.
C16_Transparency ==
    (/\ cf_ret # None /\ cf_ret[1].ok
     /\ ~Degenerate(cf_call[1]) /\ ~cf_call[1].has_interlacing /\ InsideScreen(cf_call[1]))
        => LET a == cf_call[1]
           IN \A x \in 0..(a.img_width - 1), y \in 0..(a.img_height - 1) :
                 PixelAt(cf_ret[1].val, a, x, y) = ExpectedPixel(a, x, y)

\* transparent pixels kept from the base raster around a coloured one
C16_Witness ==
    /\ cf_ret # None
    /\ cf_ret[1].ok
    /\ cf_call[1].transparent_color_index = Some(1)
    /\ cf_call[1].indices = << 1, 1, 0, 1 >>
    /\ cf_call[1].base_buffer # None
    /\ cf_call[1].width = 2
    /\ PixelAt(cf_ret[1].val, cf_call[1], 0, 0) = PixelAt(cf_call[1].base_buffer[1], cf_call[1], 0, 0)
    /\ PixelAt(cf_ret[1].val, cf_call[1], 0, 1) = TableInEffect(cf_call[1])[1]
    /\ PixelAt(cf_ret[1].val, cf_call[1], 1, 1) = PixelAt(cf_call[1].base_buffer[1], cf_call[1], 1, 1)

\* where the sub-block chain of the image data starts in the bytes of a call:
\* after the 9 byte descriptor, the local colour table and the code size byte
ChainStart(a) == 9 + (IF a.lct_bits >= 0 THEN 3 * Pow2(a.lct_bits + 1) ELSE 0) + 1

\* C17: the frame returned for a rectangle of width 0 or height 0 has the
\* screen's size and every pixel of the background colour (white when there
\* is none), whatever the base raster, and the reader is left at the start of
\* the sub-block chain of the image data.
C17_DegenerateFrame ==
    cf_ret # None /\ cf_ret[1].ok /\ Degenerate(cf_call[1]) =>
        LET a == cf_call[1]
            bg == IF a.background_color # None THEN a.background_color[1]
                  ELSE << 255, 255, 255 >>
        IN /\ Len(cf_ret[1].val) = a.img_height * a.img_width * 3
           /\ \A x \in 0..(a.img_width - 1), y \in 0..(a.img_height - 1) :
                 PixelAt(cf_ret[1].val, a, x, y) = bg
           /\ cf_ret[1].pos = ChainStart(a)
           /\ cf_ret[1].log = << >>

\* a frame of the background colour returned over a base raster, for a
\* rectangle of height 0 that has image data
C17_Witness ==
    /\ cf_ret # None
    /\ cf_ret[1].ok
    /\ cf_call[1].height = 0 /\ cf_call[1].width = 2
    /\ cf_call[1].base_buffer # None
    /\ cf_call[1].background_color = Some(<< 7, 8, 9 >>)
    /\ cf_call[1].lct_bits = 1
    /\ cf_ret[1].pos = 22
    /\ cf_call[1].bytes[23] # 0

\* the rows top+start, top+start+step, .. of one interlace pass, none below
\* the rectangle's last row top+height-1
PassRows(top, height, start, step) ==
    LET n == IF height > start THEN ((height - 1 - start) \div step) + 1 ELSE 0
    IN [i \in 1..n |-> top + start + (i - 1) * step]

\* the raster rows of the successive decoded rows of an interlaced image
InterlaceOrder(top, height) ==
    PassRows(top, height, 0, 8) \o PassRows(top, height, 4, 8)
    \o PassRows(top, height, 2, 4) \o PassRows(top, height, 1, 2)

\* the raster row of the k-th pixel drawn by a call
RowDrawn(r, a, k) == (r.log[k].idx \div 3) \div a.img_width

\* C18: the k-th decoded row of an interlaced image with top offset t and
\* height h is drawn on the k-th row of the four passes from t+0 (step 8),
\* t+4 (step 8), t+2 (step 4) and t+1 (step 2), each pass staying at or above
\* row t+h-1, and no pixel is drawn once these rows are full.
C18_InterlaceRows ==
    (/\ cf_ret # None /\ cf_call[1].has_interlacing /\ ~Degenerate(cf_call[1])
     /\ cf_call[1].left + cf_call[1].width <= cf_call[1].img_width)
        => LET a == cf_call[1]
               r == cf_ret[1]
               order == InterlaceOrder(a.top, a.height)
           IN /\ Len(r.log) <= a.width * a.height
              /\ \A k \in 1..Len(r.log) :
                    RowDrawn(r, a, k) = order[((k - 1) \div a.width) + 1]

\* the k-th drawn pixel is the last one drawn at its place
LastDrawn(log, k) == \A j \in (k + 1)..Len(log) : log[j].idx # log[k].idx

\* C19: an image is drawn with the colours of its local colour table when the
\* descriptor flags one, else with those of the global colour table; with
\* neither, construct_next_frame returns NoColorTable, gives no frame, and has
\* read the descriptor only: not the code size byte, not a sub-block.
C19_ColorTableSelection ==
    cf_ret # None
        => LET a == cf_call[1]
               r == cf_ret[1]
           IN /\ ~HasTable(a) => /\ ~r.ok /\ r.err = "NoColorTable"
                                 /\ r.val = << >> /\ r.log = << >>
                                 /\ r.pos = 9
              /\ HasTable(a) => r.err # "NoColorTable"
              /\ (HasTable(a) /\ r.ok) =>
                    \A k \in 1..Len(r.log) :
                        (r.log[k].drawn = "color" /\ LastDrawn(r.log, k))
                            => SubSeq(r.val, r.log[k].idx + 1, r.log[k].idx + 3)
                                   = TableInEffect(a)[r.log[k].elt + 1]

\* a frame drawn with the colours of the local table although a global one
\* exists
C19_Witness ==
    /\ cf_ret # None
    /\ cf_ret[1].ok
    /\ cf_call[1].lct_bits = 1
    /\ cf_call[1].global_color_table # None
    /\ \E k \in 1..Len(cf_ret[1].log) :
          /\ cf_ret[1].log[k].drawn = "color"
          /\ SubSeq(cf_ret[1].val, cf_ret[1].log[k].idx + 1, cf_ret[1].log[k].idx + 3)
                 = Triplets(LocalColorBytes(4))[cf_ret[1].log[k].elt + 1]

-----------------------------------------------------------------------------
(* parse_header on its own: main calls it on the file before anything else. *)

\* first three bytes: "GIF", "GIX", "gif", an invalid byte after "GI", the
\* string "éF" and an invalid first byte
Magics ==
    { GIF_MAGIC, << 71, 73, 88 >>, << 103, 105, 102 >>, << 71, 73, 255 >>,
      << 195, 169, 70 >>, << 255, 73, 70 >> }

\* next three bytes: "89a", "87a", "88a", "89A", "éa", and two byte
\* strings that are not UTF-8
Versions ==
    { VERSION_89a, VERSION_87a, << 56, 56, 97 >>, << 56, 57, 65 >>,
      << 195, 169, 97 >>, << 56, 57, 255 >>, << 56, 195, 40 >> }

\* a logical screen descriptor without global colour table
ScreenNoGct == U16(2) \o U16(2) \o << 0, 0, 0 >>

\* every file made of a magic, a version and the screen descriptor, and every
\* file cut short of it
HeaderInputs ==
    { SubSeq(m \o v \o ScreenNoGct, 1, n)
      : m \in Magics, v \in Versions, n \in 0..(6 + Len(ScreenNoGct)) }

InitHeader ==
    /\ input \in HeaderInputs
    /\ input_wf = FALSE
    /\ pos = 0
    /\ status = "header"
    /\ err = ""
    /\ header = None
    /\ last_graphic_ext = None
    /\ next_frame_base_buffer = None
    /\ found_loop_attribute = FALSE
    /\ events = << >>
    /\ gce_fresh = FALSE
    /\ sink_closed = FALSE
    /\ composited = << >>
    /\ LzIdle /\ CfIdle /\ HdIdle /\ PbIdle

NextHeader == ParseHeaderStep

SpecHeader == InitHeader /\ [][NextHeader]_vars

\* the first n bytes of the file, all of it when it is shorter
Prefix(n) == SubSeq(input, 1, Min(n, Len(input)))

\* C20: parse_header returns NoGIFHeader when the first 3 bytes are not the
\* string "GIF" (not a string at all included), IOError when the input ends
\* within the 6 bytes of magic and version, UnsupportedVersion(Some(v)) when the
\* next 3 bytes are a string v other than "87a" and "89a", UnsupportedVersion(None)
\* when they are not a string; then the reader is not moved beyond the failing
\* field, no header is kept and no event is sent.
C20_HeaderErrors ==
    status # "header"
        => LET magic == SubSeq(Prefix(6), 1, Min(3, Len(input)))
               version == SubSeq(Prefix(6), 4, Len(Prefix(6)))
           IN /\ Len(input) < 3
                    => status = "error" /\ err = "IOError" /\ pos = 3
              /\ (Len(input) >= 3 /\ magic # GIF_MAGIC)
                    => status = "error" /\ err = "NoGIFHeader" /\ pos = 3
              /\ (magic = GIF_MAGIC /\ Len(input) < 6)
                    => status = "error" /\ err = "IOError" /\ pos = 6
              /\ (magic = GIF_MAGIC /\ Len(input) >= 6 /\ ~IsUtf8(version))
                    => /\ status = "error" /\ err = "UnsupportedVersion" /\ pos = 6
                       /\ err_version = None
              /\ (magic = GIF_MAGIC /\ Len(input) >= 6 /\ IsUtf8(version)
                  /\ version # VERSION_87a /\ version # VERSION_89a)
                    => /\ status = "error" /\ err = "UnsupportedVersion" /\ pos = 6
                       /\ err_version = Some(version)
              /\ err # "UnsupportedVersion" => err_version = None
              /\ status = "error" => header = None /\ events = << >>
              /\ (magic = GIF_MAGIC /\ version \in { VERSION_87a, VERSION_89a })
                    => err \notin { "NoGIFHeader", "UnsupportedVersion" }

\* the version "88a" refused after a good magic
C20_Witness ==
    /\ status = "error"
    /\ err = "UnsupportedVersion"
    /\ err_version = Some(<< 56, 56, 97 >>)
    /\ pos = 6
    /\ Len(input) > 6

-----------------------------------------------------------------------------
(* The extension parsers under single blocks: a header, an optional first   *)
(* block, one block of varied bytes and what follows it; and files cut      *)
(* short at every byte.                                                     *)

\* a Graphic Control Extension with any block size and any last byte, delay 258
GceProbe(size, packed, index, last) ==
    << EXTENSION_INTRODUCER_ID, GRAPHIC_CONTROL_EXTENSION_LABEL, size, packed >>
    \o U16(258) \o << index, last >>

\* packed fields: every disposal value, the transparent colour flag, and the
\* user input flag or the reserved bits set
PackedFields == { m * 4 + f + h : m \in 0..7, f \in 0..1, h \in { 0, 2, 224 } }

GceProbes ==
    { GceProbe(4, p, 7, l) : p \in PackedFields, l \in { 0, 1 } }
    \cup { GceProbe(s, 4, 7, 0) : s \in { 0, 3, 5 } }

XMP_NAME == << 88, 77, 80, 32, 68, 97, 116, 97 >>

XMP_AUTH == << 88, 77, 80 >>

\* application identifiers: NETSCAPE2.0, NETSCAPE2.1, NETSCAPF2.0, XMP DataXMP
\* and a name that is not UTF-8
AppIds ==
    { << NETSCAPE, NETSCAPE_AUTH >>,
      << NETSCAPE, << 50, 46, 49 >> >>,
      << << 78, 69, 84, 83, 67, 65, 80, 70 >>, NETSCAPE_AUTH >>,
      << XMP_NAME, XMP_AUTH >>,
      << << 255, 69, 84, 83, 67, 65, 80, 69 >>, NETSCAPE_AUTH >> }

\* what follows the 11 byte header: whole chains of 0, 1, 2 and 3 sub-blocks,
\* and a chain whose third sub-block is cut
AppChains ==
    { << 0 >>,
      << 3, 1, 5, 0, 0 >>,
      << 3, 1, 2, 1, 0 >>,
      << 3, 2, 5, 0, 0 >>,
      << 4, 1, 5, 0, 9, 0 >>,
      << 3, 1, 5, 0, 1, 9, 0 >>,
      << 1, 0, 0 >>,
      << 1, 7, 0 >>,
      << 3, 7, 8, 9, 0 >>,
      << 3, 7, 8, 0, 0 >>,
      << 1, 7, 2, 8, 9, 0 >>,
      << 1, 0, 1, 9, 0 >>,
      << 1, 2, 2, 0, 0, 1, 9, 0 >>,
      << 1, 2, 2, 0, 0 >> }

\* an Application Extension with any block size
AppProbe(size, id, chain) ==
    << EXTENSION_INTRODUCER_ID, APPLICATION_EXTENSION_LABEL, size >>
    \o id[1] \o id[2] \o chain

AppProbes ==
    { AppProbe(11, id, c) : id \in AppIds, c \in AppChains }
    \cup { AppProbe(s, << NETSCAPE, NETSCAPE_AUTH >>, << 3, 1, 5, 0, 0 >>) : s \in { 0, 10, 12 } }

\* Comment Extensions of 0, 1 and 2 sub-blocks
CommentProbes ==
    { << EXTENSION_INTRODUCER_ID, COMMENT_EXTENSION_LABEL >> \o c
      : c \in { << 0 >>, << 2, 72, 105, 0 >>, << 1, 72, 1, 105, 0 >> } }

\* a Plain Text Extension with any block size
PlainTextProbe(size, chain) ==
    << EXTENSION_INTRODUCER_ID, PLAIN_TEXT_EXTENSION_LABEL, size >>
    \o << 0, 0, 0, 0, 2, 0, 2, 0, 1, 1, 0, 1 >> \o chain

PlainTextProbes ==
    { PlainTextProbe(12, c) : c \in { << 0 >>, << 1, 65, 0 >>, << 1, 65, 2, 66, 67, 0 >> } }
    \cup { PlainTextProbe(s, << 1, 65, 0 >>) : s \in { 0, 11, 13 } }

ProbeBlocks == GceProbes \cup AppProbes \cup CommentProbes \cup PlainTextProbes

\* the block before the probed one
ProbePrefixes == { << >>, GcePrev, Netscape258 }

\* what follows the probed block
ProbeSuffixes ==
    { Trailer, << >>, ImgPixel \o Trailer, << 0 >> \o Trailer, << 0 >> \o ImgPixel \o Trailer,
      UnknownBlock, UnknownExt }

ProbeFiles ==
    { HeaderGct \o pre \o b \o suf
      : pre \in ProbePrefixes, b \in ProbeBlocks, suf \in ProbeSuffixes }

\* one pixel at (0, 0) drawn with a 2 entry local colour table
ImgLocal ==
    << IMAGE_DESCRIPTOR_BLOCK_ID >> \o U16(0) \o U16(0) \o U16(1) \o U16(1)
    \o << 128 >> \o << 1, 2, 3, 4, 5, 6 >> \o << 2 >> \o SubBlocks(LzwEncode(2, << 1 >>))

\* the blocks of the files that are cut short
CutBlocks ==
    { GcePrev, GceKeep, Netscape258, AppUnknown, Comment, PlainText, ImgFull, ImgZero,
      ImgLocal }

\* well-formed one-block files, cut after every byte that follows the header
CutFiles ==
    UNION { { SubSeq(f, 1, k) : k \in (Len(HeaderGct) + 1)..(Len(f) - 1) }
            : f \in { HeaderGct \o b \o Trailer : b \in CutBlocks } }

-----------------------------------------------------------------------------
(* Files whose header gives no usable background colour.                    *)

\* the header of HeaderGct with another background colour index
HeaderBg(index) ==
    GIF_MAGIC \o VERSION_89a \o U16(2) \o U16(2) \o << 129, index, 0 >> \o ColorBytes

\* no global colour table, background colour index 1
HeaderNoGctBg == GIF_MAGIC \o VERSION_89a \o U16(2) \o U16(2) \o << 0, 1, 0 >>

\* background colour index 4 or 255 with 4 colours, or no global colour table
BgHeaders == { HeaderBg(4), HeaderBg(255), HeaderNoGctBg }

\* an image with a 2 entry local colour table
LocalImageBlock(left, top, width, height, chain) ==
    << IMAGE_DESCRIPTOR_BLOCK_ID >> \o U16(left) \o U16(top) \o U16(width) \o U16(height)
    \o << 128 >> \o LocalColorBytes(2) \o << 2 >> \o chain

\* the whole screen, indices 0 1 1 0 of the local table
ImgLocalFull == LocalImageBlock(0, 0, 2, 2, SubBlocks(LzwEncode(2, << 0, 1, 1, 0 >>)))

\* a zero-width image with a local table and an empty chain
ImgZeroLocal == LocalImageBlock(0, 0, 0, 2, << 0 >>)

BgImages == { ImgFull, ImgZero, ImgLocalFull, ImgZeroLocal }

\* no Graphic Control Extension, transparent index 0 with disposal 0, or
\* transparent index 3 with disposal 2 (RestoreToBackgroundColor)
BgGces == { << >>, GceBlock(1, 0, 0), GceBlock(9, 0, 3) }

BgFiles ==
    { h \o g \o Concat(imgs) \o Trailer
      : h \in BgHeaders, g \in BgGces, imgs \in SeqsUpTo(BgImages, 2) }

InitBlocks ==
    /\ input \in ProbeFiles \cup CutFiles \cup BgFiles
    /\ input_wf = FALSE
    /\ pos = 0
    /\ status = "header"
    /\ err = ""
    /\ header = None
    /\ last_graphic_ext = None
    /\ next_frame_base_buffer = None
    /\ found_loop_attribute = FALSE
    /\ events = << >>
    /\ gce_fresh = FALSE
    /\ sink_closed = FALSE
    /\ composited = << >>
    /\ LzIdle /\ CfIdle /\ HdIdle /\ PbIdle

SpecBlocks == InitBlocks /\ [][Next]_vars

-----------------------------------------------------------------------------
(* The GIF89a block grammar, read off the bytes with no reference to the    *)
(* parser: what the file holds, against which the parser's reads are put.   *)

\* the position after the Logical Screen Descriptor and the global colour
\* table of a file whose header is whole
HeaderEnd(bytes) ==
    13 + (IF bytes[11] >= 128 THEN 3 * Pow2((bytes[11] % 8) + 1) ELSE 0)

RECURSIVE ChainEnd(_, _)
\* the position after the zero-length terminator of the sub-block chain that
\* starts at p, -1 when the bytes end before it
ChainEnd(bytes, p) ==
    IF p >= Len(bytes) THEN -1
    ELSE IF bytes[p + 1] = 0 THEN p + 1
    ELSE ChainEnd(bytes, p + 1 + bytes[p + 1])

\* the fixed-size bytes of the block at p, from its tag to the start of its
\* sub-block chain: -1 when the bytes end within them, -2 for a tag, a label or
\* a block size the grammar does not have
FixedEnd(bytes, p) ==
    LET n == Len(bytes)
        at(i) == bytes[p + i]
    IN IF at(1) = IMAGE_DESCRIPTOR_BLOCK_ID
       THEN IF n < p + 10 THEN -1
            ELSE LET lct == IF at(10) >= 128 THEN 3 * Pow2((at(10) % 8) + 1) ELSE 0
                 IN IF n < p + 10 + lct + 1 THEN -1 ELSE p + 10 + lct + 1
       ELSE IF at(1) # EXTENSION_INTRODUCER_ID THEN -2
       ELSE IF n < p + 2 THEN -1
       ELSE IF at(2) = COMMENT_EXTENSION_LABEL THEN p + 2
       ELSE IF at(2) \notin KnownLabels THEN -2
       ELSE IF n < p + 3 THEN -1
       ELSE IF at(2) = GRAPHIC_CONTROL_EXTENSION_LABEL
            THEN IF at(3) # 4 THEN -2 ELSE IF n < p + 7 THEN -1 ELSE p + 7
       ELSE IF at(2) = APPLICATION_EXTENSION_LABEL
            THEN IF at(3) # 11 THEN -2 ELSE IF n < p + 14 THEN -1 ELSE p + 14
       ELSE IF at(3) # 12 THEN -2 ELSE IF n < p + 15 THEN -1 ELSE p + 15

\* the position after the block at p (-1 and -2 as above)
BlockEnd(bytes, p) ==
    LET f == FixedEnd(bytes, p)
    IN IF f < 0 THEN f ELSE ChainEnd(bytes, f)

RECURSIVE Walk(_, _)
\* the blocks from p on: "complete" when they lead to a Trailer, "cut" when
\* the bytes end inside a block, "boundary" when they end between two blocks,
\* "unknown" when a tag, label or block size is not of the grammar
Walk(bytes, p) ==
    IF p >= Len(bytes) THEN "boundary"
    ELSE IF bytes[p + 1] = TRAILER_BLOCK_ID THEN "complete"
    ELSE LET e == BlockEnd(bytes, p)
         IN IF e = -1 THEN "cut"
            ELSE IF e = -2 THEN "unknown"
            ELSE Walk(bytes, e)

\* C21: when the input ends before the zero-length terminator of a sub-block
\* chain or in the middle of a fixed-size field, decode_and_render returns
\* IOError: never Ok, never another error, and GifFrameEnd is not sent.
C21_TruncationIsIOError ==
    (Terminated /\ status # "header" /\ Walk(input, HeaderEnd(input)) = "cut")
        => /\ status = "error"
           /\ err = "IOError"
           /\ \A i \in 1..Len(events) : events[i] # GifFrameEnd

\* C22: a Comment Extension consumes its sub-block chain up to and including
\* the first zero-length sub-block and nothing more: whenever the chain is
\* whole, the decode goes on and the next tag is read right after the
\* terminator, whatever byte is there.
C22_CommentConsumed ==
    [][(CommentExtensionStep /\ ChainEnd(input, Label.pos) # -1)
          => (status' = "running" /\ pos' = ChainEnd(input, Label.pos))]_vars

\* the Application Extension at p is a NETSCAPE2.0 looping extension: name
\* "NETSCAPE", authentication code "2.0", a first sub-block of length 3 and
\* sub-block id 1
IsNetscapeLooping(bytes, p) ==
    /\ Len(bytes) >= p + 16
    /\ SubSeq(bytes, p + 4, p + 11) = NETSCAPE
    /\ SubSeq(bytes, p + 12, p + 14) = NETSCAPE_AUTH
    /\ bytes[p + 15] = 3
    /\ bytes[p + 16] = 1

\* C23: an Application Extension of block size 11 that is not a NETSCAPE2.0
\* looping extension is NotKnown (no event, no loop attribute) and consumes its
\* 11 header bytes and its whole sub-block chain through the terminator, for
\* any number of sub-blocks and any data: the next tag is read right after it.
C23_UnknownApplicationSkipped ==
    [][(/\ ApplicationExtensionStep
        /\ FixedEnd(input, pos) >= 0
        /\ BlockEnd(input, pos) # -1
        /\ ~IsNetscapeLooping(input, pos))
          => /\ status' = "running"
             /\ pos' = BlockEnd(input, pos)
             /\ events' = events
             /\ found_loop_attribute' = found_loop_attribute]_vars

\* C24: an Application Extension that is whole in the file yields
\* NetscapeLooping(n) exactly when it is a NETSCAPE2.0 looping extension, n
\* being the little-endian u16 after the sub-block id: the driver then sets
\* found_loop_attribute and sends LoopingInfo(Some(n)); in every other case no
\* LoopingInfo is sent for the extension.
C24_NetscapeLooping ==
    [][(/\ ApplicationExtensionStep
        /\ FixedEnd(input, pos) >= 0
        /\ BlockEnd(input, pos) # -1)
          => IF IsNetscapeLooping(input, pos)
             THEN /\ found_loop_attribute'
                  /\ events' = Append(events,
                                      LoopingInfo(Some(input[pos + 17] + 256 * input[pos + 18])))
             ELSE events' = events]_vars

\* the disposal methods by the value of bits 4..2 of the packed byte
DisposalTable ==
    << "NoDisposalSpecified", "DoNotDispose", "RestoreToBackgroundColor", "RestoreToPrevious",
       "NoDisposalSpecified", "NoDisposalSpecified", "NoDisposalSpecified",
       "NoDisposalSpecified" >>

\* C25: for a Graphic Control Extension of block size 4 whose bytes are all
\* there, a last byte 0 makes the parse succeed 6 bytes after the label with the
\* disposal method bits 4..2 of the packed byte stand for and with
\* transparent_color_index Some(index byte) when bit 0 is set, None otherwise;
\* any other last byte gives ExpectedBlockTerminator and last_graphic_ext keeps
\* its value.
C25_GraphicControlExtension ==
    [][(/\ GraphicControlExtensionStep
        /\ Len(input) >= pos + 8
        /\ input[pos + 3] = 4)
          => LET packed == input[pos + 4]
             IN IF input[pos + 8] = 0
                THEN /\ status' = "running"
                     /\ pos' = pos + 8
                     /\ last_graphic_ext' # None
                     /\ last_graphic_ext'[1].disposal_method =
                            DisposalTable[((packed \div 4) % 8) + 1]
                     /\ last_graphic_ext'[1].transparent_color_index =
                            IF packed % 2 = 1 THEN Some(input[pos + 7]) ELSE None
                ELSE /\ status' = "error"
                     /\ err' = "ExpectedBlockTerminator"
                     /\ last_graphic_ext' = last_graphic_ext]_vars

\* after a Graphic Control Extension with disposal 3 and transparent index 2,
\* one with the packed byte 21 (disposal value 5, transparency) and index 7
C25_Witness ==
    /\ input = HeaderGct \o GcePrev \o GceProbe(4, 21, 7, 0) \o Trailer
    /\ status = "ok"
    /\ last_graphic_ext # None
    /\ last_graphic_ext[1].disposal_method = "NoDisposalSpecified"
    /\ last_graphic_ext[1].transparent_color_index = Some(7)

\* the step taken on the extension at pos found a block size other than
\* `expected`: it fails with UnexpectedLength { expected, got }, right after the
\* block size, sends nothing and changes neither last_graphic_ext nor
\* found_loop_attribute
WrongLength(expected) ==
    (Len(input) >= pos + 3 /\ input[pos + 3] # expected)
        => /\ status' = "error"
           /\ err' = "UnexpectedLength"
           /\ err_length' = Some(<< expected, input[pos + 3] >>)
           /\ pos' = pos + 3
           /\ events' = events
           /\ last_graphic_ext' = last_graphic_ext
           /\ found_loop_attribute' = found_loop_attribute

\* C26: a block size other than 4 for a Graphic Control Extension, 11 for an
\* Application Extension and 12 for a Plain Text Extension is rejected with
\* UnexpectedLength carrying the expected and the actual size; the decode stops
\* there, no event is sent and last_graphic_ext and found_loop_attribute keep
\* their values.
C26_UnexpectedLength ==
    [][/\ GraphicControlExtensionStep => WrongLength(4)
       /\ ApplicationExtensionStep => WrongLength(11)
       /\ PlainTextExtensionStep => WrongLength(12)]_vars

\* an Application Extension of block size 12 after a NETSCAPE2.0 looping
\* extension with loop count 258
C26_Witness ==
    /\ status = "error"
    /\ err = "UnexpectedLength"
    /\ err_length = Some(<< 11, 12 >>)
    /\ found_loop_attribute
    /\ events = << LoopingInfo(Some(258)) >>
    /\ pos = Len(HeaderGct) + Len(Netscape258) + 3

\* the bytes of `block` are the ones at the reader's position
IsAt(block) ==
    /\ Len(input) >= pos + Len(block)
    /\ SubSeq(input, pos + 1, pos + Len(block)) = block

RECURSIVE Painted(_, _, _)
\* the raster of a whole-screen image of the given indices drawn over no base
\* raster when there is no background colour: white where the index is the
\* transparent one, the colour of the table elsewhere
Painted(indices, table, tci) ==
    IF indices = << >> THEN << >>
    ELSE (IF tci = Some(Head(indices)) THEN << 255, 255, 255 >>
          ELSE table[Head(indices) + 1])
         \o Painted(Tail(indices), table, tci)

\* the header names no colour of a global colour table as the background
NoBackground ==
    \/ header[1].global_color_table = None
    \/ header[1].background_color_index >= Len(header[1].global_color_table[1])

\* the step sent the frame `data` and the decode goes on
FrameSent(data) ==
    /\ status' = "running"
    /\ Len(events') = Len(events) + 1
    /\ events'[Len(events')].type = "GifFrameData"
    /\ events'[Len(events')].data = data

-----------------------------------------------------------------------------
(* The decode with an event loop that may be destroyed while it runs.       *)

\* the event loop is destroyed: every later send_event fails
SinkCloses ==
    /\ status \in { "header", "running" }
    /\ ~sink_closed
    /\ sink_closed' = TRUE
    /\ UNCHANGED << input, input_wf, pos, status, err, header, last_graphic_ext,
                    next_frame_base_buffer, found_loop_attribute, events, gce_fresh,
                    composited, lzVars, cfVars, hdVars, pbVars >>

\* the Trailer arm with the event loop destroyed between its two sends: the
\* first one succeeds and the second one fails
TrailerStepSinkCloses ==
    /\ status = "running"
    /\ Tag.ok
    /\ Tag.val = TRAILER_BLOCK_ID
    /\ ~sink_closed
    /\ Len(TrailerEvents(events, found_loop_attribute)) = Len(events) + 2
    /\ events' = SubSeq(TrailerEvents(events, found_loop_attribute), 1, Len(events) + 1)
    /\ sink_closed' = TRUE
    /\ status' = AfterSend(FALSE, "ok")
    /\ pos' = Tag.pos
    /\ UNCHANGED << input, input_wf, err, header, last_graphic_ext, next_frame_base_buffer,
                    found_loop_attribute, gce_fresh, composited, lzVars, cfVars, hdVars,
                    pbVars >>

NextSink == Next \/ SinkCloses \/ TrailerStepSinkCloses

SpecSink == Init /\ [][NextSink]_vars

\* C28: a failed send is fatal to the decoder.  Once the sink is closed no
\* event is added; the block that has to send one (an image whose frame was
\* built, a NETSCAPE2.0 looping extension, the Trailer) ends the decoder at once
\* in place of going on or returning Ok; and after that nothing is read or
\* sent any more.
C28_SendErrorsAreFatal ==
    [][/\ sink_closed => events' = events
       /\ (sink_closed /\ TrailerStep) => status' = "exit"
       /\ TrailerStepSinkCloses => status' = "exit"
       /\ (sink_closed /\ ImageDescriptorStep) => status' \in { "exit", "error", "panic" }
       /\ (sink_closed /\ ApplicationExtensionStep /\ ~found_loop_attribute
           /\ found_loop_attribute') => status' = "exit"
       /\ status' = "ok" => ~sink_closed'
       /\ status' = "exit"
            => sink_closed' /\ \A i \in 1..Len(events') : events'[i] # GifFrameEnd
       /\ status = "exit" => UNCHANGED << pos, events, status >>]_vars

\* the sink was closed after the first frame of a file was sent: the second
\* image ends the decoder with blocks left unread
C28_Witness ==
    /\ status = "exit"
    /\ sink_closed
    /\ Len(events) = 1
    /\ events[1].type = "GifFrameData"
    /\ pos < Len(input) - 1

-----------------------------------------------------------------------------
(* frames_store.rs: the FramesStore fed with the GifEvents of a decode and  *)
(* asked by check which frame to show.  The event loop of event_loop.rs     *)
(* keeps the same five values and runs the same steps in its closure.       *)

\* the most frames of a run
MaxFrames == 2

\* the largest loop count of a run
MaxLoops == 2

\* the number of frame changes after which check is not followed further
MaxDisplayed == (MaxLoops + 2) * MaxFrames

\* FramesStore::add_frame
AddFrame(s, frame, duration) ==
    [s EXCEPT !.frames = Append(@, [frame |-> frame, duration |-> duration])]

\* FramesStore::set_loop_iterations
SetLoopIterations(s, iterations) == [s EXCEPT !.left_loop_iterations = iterations]

\* FramesStore::end_of_frames
EndOfFrames(s) == [s EXCEPT !.last_frame_known = TRUE]

\* the match on left_loop_iterations = Some(x) with 0 counted down like 1
LoopsLeftZeroEnds(x) == IF x <= 1 THEN None ELSE Some(x - 1)

\* the match on left_loop_iterations = Some(x) when the frames start again
LoopsLeft(x) == IF x = 0 THEN Some(0) ELSE IF x = 1 THEN None ELSE Some(x - 1)

\* FramesStore::check; elapsed: the current frame was shown for its duration
\* (time_since_last_change >= delay_dur).  new_frame is the Option of the frame
\* to show.
Check(s, elapsed) ==
    IF s.frames = << >> THEN [store |-> s, new_frame |-> None]
    ELSE IF s.curr_frame_duration = None THEN [store |-> s, new_frame |-> None]
    ELSE IF ~elapsed THEN [store |-> s, new_frame |-> None]
    ELSE IF s.curr_frame_idx < Len(s.frames)
         THEN [store |-> [s EXCEPT !.curr_frame_duration =
                                       s.frames[s.curr_frame_idx + 1].duration,
                                   !.curr_frame_idx = @ + 1],
               new_frame |-> Some(s.frames[s.curr_frame_idx + 1].frame)]
    ELSE IF ~s.last_frame_known THEN [store |-> s, new_frame |-> None]
    ELSE IF s.left_loop_iterations = None THEN [store |-> s, new_frame |-> None]
    ELSE [store |-> [s EXCEPT !.left_loop_iterations = LoopsLeft(@[1]),
                              !.curr_frame_duration = s.frames[1].duration,
                              !.curr_frame_idx = 1],
          new_frame |-> Some(s.frames[1].frame)]

\* the delays a frame may carry
Delays == { None, Some(0), Some(5) }

\* frames 1, 2, .. with the given delays
FrameEvents(ds) == [i \in 1..Len(ds) |-> GifFrameData(<< i >>, ds[i])]

InsertAt(seq, e, at) == SubSeq(seq, 1, at) \o << e >> \o SubSeq(seq, at + 1, Len(seq))

\* what a decode of frames with the delays ds sends: the frames in order, at
\* most one LoopingInfo (a Some(n) at any place, a None after the last frame)
\* and GifFrameEnd, unless the decode failed before it
ScriptsOf(ds) ==
    { InsertAt(FrameEvents(ds), LoopingInfo(Some(n)), at) \o end
      : n \in 0..MaxLoops, at \in 0..Len(ds), end \in { << GifFrameEnd >>, << >> } }
    \cup { FrameEvents(ds) \o lp \o end
           : lp \in { << LoopingInfo(None) >>, << >> }, end \in { << GifFrameEnd >>, << >> } }

Scripts == UNION { ScriptsOf(ds) : ds \in SeqsUpTo(Delays, MaxFrames) }

PbInit ==
    /\ store = FramesStoreNew
    /\ script \in Scripts
    /\ pending = script
    /\ displayed = << >>

\* GifEvent::GifFrameData handled
AddFrameStep ==
    /\ pending # << >>
    /\ Head(pending).type = "GifFrameData"
    /\ store' = AddFrame(store, Head(pending).data, Head(pending).delay_until_next)
    /\ pending' = Tail(pending)
    /\ UNCHANGED << script, displayed, drvVars, lzVars, cfVars, hdVars >>

\* GifEvent::LoopingInfo handled
SetLoopIterationsStep ==
    /\ pending # << >>
    /\ Head(pending).type = "LoopingInfo"
    /\ store' = SetLoopIterations(store, Head(pending).value)
    /\ pending' = Tail(pending)
    /\ UNCHANGED << script, displayed, drvVars, lzVars, cfVars, hdVars >>

\* GifEvent::GifFrameEnd handled
EndOfFramesStep ==
    /\ pending # << >>
    /\ Head(pending).type = "GifFrameEnd"
    /\ store' = EndOfFrames(store)
    /\ pending' = Tail(pending)
    /\ UNCHANGED << script, displayed, drvVars, lzVars, cfVars, hdVars >>

\* a call of check, at any time: a duration of 0 has always elapsed
CheckStep ==
    /\ Len(displayed) < MaxDisplayed
    /\ \E elapsed \in BOOLEAN :
          /\ store.curr_frame_duration = Some(0) => elapsed
          /\ LET Returned(r) ==
                     /\ store' = r.store
                     /\ displayed' = displayed \o r.new_frame
             IN Returned(Check(store, elapsed))
    /\ UNCHANGED << pending, script, drvVars, lzVars, cfVars, hdVars >>

InitPlayback == DrvIdle /\ LzIdle /\ CfIdle /\ HdIdle /\ PbInit

NextPlayback == AddFrameStep \/ SetLoopIterationsStep \/ EndOfFramesStep \/ CheckStep

\* check keeps being called, time advances and sent events are handled
SpecPlayback == InitPlayback /\ [][NextPlayback]_vars /\ WF_vars(NextPlayback)

\* the number of frames of the run
NbFrames == Cardinality({ i \in 1..Len(script) : script[i].type = "GifFrameData" })

\* every frame of the run carries a delay
AllDelays ==
    \A i \in 1..Len(script) :
        script[i].type = "GifFrameData" => script[i].delay_until_next # None

\* the looping information of the run: the value of its LoopingInfo, None
\* when it has none
LoopOf ==
    IF \E i \in 1..Len(script) : script[i].type = "LoopingInfo"
    THEN (CHOOSE e \in { script[i] : i \in 1..Len(script) } : e.type = "LoopingInfo").value
    ELSE None

\* the run ends with GifFrameEnd
HasEnd == script # << >> /\ script[Len(script)] = GifFrameEnd

\* frames 1..k shown n times over
Passes(n, k) == [i \in 1..(n * k) |-> << ((i - 1) % k) + 1 >>]

IsPrefix(s, t) == Len(s) <= Len(t) /\ s = SubSeq(t, 1, Len(s))

\* the loop count of the run, 0 when it has none
LoopCount == IF LoopOf = None THEN 0 ELSE LoopOf[1]

\* the run of C29: a loop count n >= 1, a delay on every frame, GifFrameEnd sent
FiniteLoop == HasEnd /\ AllDelays /\ LoopCount >= 1

\* C29: with looping information Some(n), n >= 1, a delay on every frame and
\* GifFrameEnd sent, the frames are shown in order n times over in total: never
\* anything else, and in the end all of it, after which no frame is shown.
C29_LoopCount ==
    /\ [](FiniteLoop => IsPrefix(displayed, Passes(LoopCount, NbFrames)))
    /\ <>[](FiniteLoop => displayed = Passes(LoopCount, NbFrames))

\* C30: with looping information None (LoopingInfo(None) or no LoopingInfo),
\* every frame is shown once, in order: never anything else, and in the end all
\* of them, after which no frame is shown.
C30_PlayedOnce ==
    /\ [](LoopOf = None => IsPrefix(displayed, Passes(1, NbFrames)))
    /\ <>[](LoopOf = None => displayed = Passes(1, NbFrames))

-----------------------------------------------------------------------------
(* Playback followed without end: what was displayed is forgotten            *)
(* MaxDisplayed frames at a time, the last one excepted, so that a frame     *)
(* change always changes `displayed` and the run of an endless loop is a     *)
(* cycle of finitely many states.                                            *)

\* the frames displayed since the last time they were forgotten
Forget(shown) == IF Len(shown) > MaxDisplayed THEN << shown[Len(shown)] >> ELSE shown

\* a call of check, at any time and without end
CheckStepForever ==
    /\ \E elapsed \in BOOLEAN :
          /\ store.curr_frame_duration = Some(0) => elapsed
          /\ LET Returned(r) ==
                     /\ store' = r.store
                     /\ displayed' = Forget(displayed \o r.new_frame)
             IN Returned(Check(store, elapsed))
    /\ UNCHANGED << pending, script, drvVars, lzVars, cfVars, hdVars >>

NextLooping == AddFrameStep \/ SetLoopIterationsStep \/ EndOfFramesStep \/ CheckStepForever

\* check keeps being called, time advances and sent events are handled
SpecLooping == InitPlayback /\ [][NextLooping]_vars /\ WF_vars(NextLooping)

\* the run of C31: looping information Some(0), at least one frame, a delay on
\* every frame, GifFrameEnd sent
InfiniteLoop == HasEnd /\ AllDelays /\ LoopOf = Some(0) /\ NbFrames >= 1

\* the frame displayed last, 0 before the first
LastShown(shown) == IF shown = << >> THEN 0 ELSE shown[Len(shown)][1]

\* C31: with looping information Some(0), at least one frame and a delay on
\* every frame, once GifFrameEnd is received left_loop_iterations is Some(0)
\* for ever, each frame displayed is the one after the frame displayed before
\* it (frame 1 after the last), and a frame is displayed again and again
\* without end.
C31_InfiniteLooping ==
    /\ [](InfiniteLoop /\ pending = << >> => store.left_loop_iterations = Some(0))
    /\ [][InfiniteLoop /\ displayed' # displayed
            => LastShown(displayed') = (LastShown(displayed) % NbFrames) + 1]_vars
    /\ (InfiniteLoop => []<><< displayed' # displayed >>_vars)

\* two frames looping without end: frame 1 displayed again after frame 2, with
\* every event received
C31_Witness ==
    /\ InfiniteLoop
    /\ pending = << >>
    /\ NbFrames = 2
    /\ Len(displayed) >= 3
    /\ displayed[Len(displayed) - 1] = << 2 >>
    /\ displayed[Len(displayed)] = << 1 >>

\* C32: in every state of the FramesStore curr_frame_idx is a valid index into
\* frames: a position 0 .. frames.len() - 1 of the vector.
C32_ValidIndex == store.curr_frame_idx \in 0..(Len(store.frames) - 1)

-----------------------------------------------------------------------------
(* decode_next followed one code at a time: one step is one turn of its     *)
(* `loop`, a get_next_code call and the match on what it returned, on the   *)
(* buffer lz_stream of a single call, lz_fed being current_offset.          *)

\* one turn of the loop of decode_next on buf[current_offset..]: the decoder
\* afterwards, the bytes added to decoded_buf, the bytes consumed, the code
\* read (-1 for none) and the arm taken
DecodeCode(dec, rest) ==
    LET r == GetNextCode(dec.bits, dec.acc, rest, dec.dict.curr_code_size)
        dec1 == [dec EXCEPT !.bits = r.bits, !.acc = r.acc]
        v == GetValue(dec1.dict, r.code)
        Turn(d, out, kind, panic) ==
            [dec |-> d, out |-> out, consumed |-> r.consumed, code |-> r.code,
             kind |-> kind, panic |-> panic]
    IN IF r.code = -1 THEN Turn(dec1, << >>, "NoCode", r.panic)
       ELSE CASE v.kind = "Clear" -> Turn(OnClear(dec1), << >>, "Clear", FALSE)
              [] v.kind = "Stop" -> Turn(dec1, << >>, "Stop", FALSE)
              [] v.kind = "None" -> Turn(dec1, << >>, "None", TRUE)
              [] v.kind = "Repeat" ->
                   IF Len(dec1.current_val) = 0
                   THEN Turn(dec1, << >>, "Repeat", TRUE)
                   ELSE Turn(OnRepeat(dec1), OnRepeat(dec1).current_val, "Repeat", FALSE)
              [] OTHER -> Turn(OnValue(dec1, v.val), v.val, "Value", FALSE)

\* the longest buffer of a call followed code by code
MaxCodeBytes == 3

\* the bytes of those buffers.  With min_code_size 2 (3-bit codes, Clear 4,
\* Stop 5, first free code 6), least significant bits first:
\*   0 = (0, 0, ..)   5 = (Stop, ..)   6 = (6, ..)   7 = (7, ..)   8 = (0, 1, ..)
\*  12 = (Clear, 1, ..)   40 = (0, Stop, ..)   44 = (Clear, Stop, ..)
\*  48 = (0, 6, ..)   52 = (Clear, 6, ..)
\* With min_code_size 8 (9-bit codes, Clear 256, Stop 257, first free code 258)
\* a code is a byte and the low bit of the next one.
CodeBytes(min_code_size) ==
    IF min_code_size = 2 THEN { 0, 5, 6, 7, 8, 12, 40, 44, 48, 52 } ELSE { 0, 1, 2, 3, 255 }

CodesInit ==
    /\ lz_min \in { 2, 8 }
    /\ lz_data = << >>
    /\ lz_stream \in SeqsUpTo(CodeBytes(lz_min), MaxCodeBytes)
    /\ lz_fed = 0
    /\ lz_dec = LzwDecoderNew(lz_min)
    /\ lz_out = << >>
    /\ lz_panic = FALSE
    /\ lz_stopped = FALSE

\* one turn of the loop; after a Stop code, a panic! or a missing code the
\* call is over
DecodeCodeStep ==
    /\ ~lz_panic
    /\ ~lz_stopped
    /\ LET Returned(r) ==
               /\ lz_dec' = r.dec
               /\ lz_out' = lz_out \o r.out
               /\ lz_fed' = lz_fed + r.consumed
               /\ lz_panic' = r.panic
               /\ lz_stopped' = (r.kind = "Stop")
       IN Returned(DecodeCode(lz_dec, SliceFrom(lz_stream, lz_fed)))
    /\ UNCHANGED << lz_min, lz_data, lz_stream, drvVars, cfVars, hdVars, pbVars >>

InitCodes == DrvIdle /\ CodesInit /\ CfIdle /\ HdIdle /\ PbIdle

NextCodes == DecodeCodeStep

SpecCodes == InitCodes /\ [][NextCodes]_vars

\* what the turn about to run reads and does
ThisTurn == DecodeCode(lz_dec, SliceFrom(lz_stream, lz_fed))

\* a turn runs in this step
TurnRuns == ~lz_panic /\ ~lz_stopped

RECURSIVE CodesRead(_, _)
\* the codes a call reads from `rest` with the decoder dec, each with the width
\* it was read at, up to a Stop code, a panic! or the end of the input
CodesRead(dec, rest) ==
    LET Read(t) ==
            IF t.kind = "NoCode" \/ t.panic THEN << >>
            ELSE << << t.code, dec.dict.curr_code_size >> >>
                 \o (IF t.kind = "Stop" THEN << >>
                     ELSE CodesRead(t.dec, SliceFrom(rest, t.consumed)))
    IN Read(DecodeCode(dec, rest))

\* the codes of the whole call
AllCodes == CodesRead(LzwDecoderNew(lz_min), lz_stream)

RECURSIVE SegmentsOf(_, _, _, _)
\* the codes cut after each Clear code; every segment is closed by a Stop code
\* of the width of the code that ended it (last_width when the input ended it)
SegmentsOf(codes, i, segment, last_width) ==
    LET stop == Pow2(lz_min) + 1
    IN IF i > Len(codes) THEN << Append(segment, << stop, last_width >>) >>
       ELSE IF codes[i][1] = Pow2(lz_min)
            THEN << Append(segment, << stop, codes[i][2] >>) >>
                 \o SegmentsOf(codes, i + 1, << >>, last_width)
            ELSE IF codes[i][1] = stop
                 THEN << Append(segment, codes[i]) >>
                 ELSE SegmentsOf(codes, i + 1, Append(segment, codes[i]), last_width)

\* a segment decoded on its own, by a new decoder
DecodedAlone(segment) ==
    DecodeNext(LzwDecoderNew(lz_min), PackBits(segment, 1, 0, 0)).out

\* the call is over: Stop code, panic! or no code left
CallOver == lz_panic \/ lz_stopped \/ ThisTurn.kind = "NoCode"

\* the table of a new dictionary: the roots, then the Clear and Stop slots
RootsAndSentinels ==
    [c \in 1..(Pow2(lz_min) + 2) |-> IF c <= Pow2(lz_min) THEN << c - 1 >> ELSE << >>]

\* the decoder is as it is when new, the bit reader apart
AsNew(dec) ==
    /\ dec.dict.table = RootsAndSentinels
    /\ dec.dict.curr_code_size = lz_min + 1
    /\ dec.current_val = << >>

\* C33: a turn that reads the Clear code leaves the table with the roots and
\* the two sentinels alone, curr_code_size = min_code_size + 1 and current_val
\* empty; a turn that starts from there adds no entry to the table; and the
\* output of a call that did not panic is the outputs of its segments between
\* Clear codes, each decoded by a new decoder, one after the other.
C33_ClearResets ==
    /\ [][TurnRuns /\ ThisTurn.code = Pow2(lz_min) => AsNew(lz_dec')]_vars
    /\ [][TurnRuns /\ AsNew(lz_dec) => lz_dec'.dict.table = lz_dec.dict.table]_vars
    /\ [](CallOver /\ ~lz_panic
            => lz_out = Concat([k \in 1..Len(SegmentsOf(AllCodes, 1, << >>,
                                                        lz_dec.dict.curr_code_size))
                                  |-> DecodedAlone(SegmentsOf(AllCodes, 1, << >>,
                                                   lz_dec.dict.curr_code_size)[k])]))

\* a call that is over without panic, in which a Clear code came after an entry
\* was added to the table and a data code came after the Clear code
C33_Witness ==
    /\ CallOver
    /\ ~lz_panic
    /\ \E i \in 3..Len(AllCodes) :
          /\ AllCodes[i][1] = Pow2(lz_min)
          /\ AllCodes[i - 1][1] < Pow2(lz_min)
          /\ AllCodes[i - 2][1] < Pow2(lz_min)
          /\ i < Len(AllCodes)
          /\ AllCodes[i + 1][1] < Pow2(lz_min)

-----------------------------------------------------------------------------
(* A long image of one colour: decode_next called again and again on        *)
(* sub-blocks of zero bytes, whose codes are all 0 at every width, until    *)
(* every 12-bit code is assigned.  Here lz_stream is the buffer of the      *)
(* current call and lz_out its decoded_buf.                                 *)

\* the length of those sub-blocks
BlockBytes == 16

\* the table length after which no further call is followed
LongTable == 4097

\* the current call has returned for lack of a code
NoCodeLeft == ThisTurn.kind = "NoCode" /\ ThisTurn.dec = lz_dec /\ ThisTurn.consumed = 0

\* the calls followed further: those of the image of one colour
MoreCalls ==
    /\ ~lz_panic
    /\ ~lz_stopped
    /\ NoCodeLeft
    /\ lz_stream \in { << >>, Zeros(BlockBytes) }
    /\ Len(lz_dec.dict.table) < LongTable

\* decode_next is called on the next sub-block
BeginCallStep ==
    /\ MoreCalls
    /\ lz_stream' = Zeros(BlockBytes)
    /\ lz_fed' = 0
    /\ lz_out' = << >>
    /\ UNCHANGED << lz_min, lz_data, lz_dec, lz_panic, lz_stopped,
                    drvVars, cfVars, hdVars, pbVars >>

\* a whole decode_next call on the next sub-block
WholeCallStep ==
    /\ MoreCalls
    /\ LET Returned(r) ==
               /\ lz_dec' = r.dec
               /\ lz_out' = r.out
               /\ lz_panic' = r.panic
               /\ lz_stopped' = r.stop
       IN Returned(DecodeNext(lz_dec, Zeros(BlockBytes)))
    /\ lz_stream' = Zeros(BlockBytes)
    /\ lz_fed' = BlockBytes
    /\ UNCHANGED << lz_min, lz_data, drvVars, cfVars, hdVars, pbVars >>

NextLong == DecodeCodeStep \/ BeginCallStep \/ WholeCallStep

SpecLong == InitCodes /\ [][NextLong]_vars

\* bit j of the buffer, least significant bit of the first byte first
BitAt(bytes, j) == (bytes[(j \div 8) + 1] \div Pow2(j % 8)) % 2

\* bit j of what is left to read: the bits pending in the reader, then the
\* bytes of the buffer from current_offset on
PendingBit(j) ==
    IF j < lz_dec.bits THEN (lz_dec.acc \div Pow2(j)) % 2
    ELSE BitAt(lz_stream, (8 * lz_fed) + (j - lz_dec.bits))

RECURSIVE PendingBits(_, _)
\* the bits j .. n - 1 left to read, as a number
PendingBits(j, n) == IF j >= n THEN 0 ELSE PendingBit(j) + 2 * PendingBits(j + 1, n)

\* a turn of the loop runs in this step and does something
TurnActs == TurnRuns /\ ~NoCodeLeft

\* C34: curr_code_size grows by one in exactly the turns that push an entry
\* after which the table holds 2^curr_code_size codes while curr_code_size < 12,
\* and no turn makes it grow otherwise; it is always within
\* min_code_size + 1 .. 12; and every code is read at the width curr_code_size
\* has when it is read.
C34_CodeSizeGrowth ==
    /\ [][TurnActs
            => /\ (lz_dec'.dict.curr_code_size = lz_dec.dict.curr_code_size + 1)
                     <=> /\ Len(lz_dec'.dict.table) = Len(lz_dec.dict.table) + 1
                         /\ Len(lz_dec'.dict.table) = Pow2(lz_dec.dict.curr_code_size)
                         /\ lz_dec.dict.curr_code_size < 12
               /\ lz_dec'.dict.curr_code_size <= lz_dec.dict.curr_code_size + 1]_vars
    /\ [](lz_dec.dict.curr_code_size \in (lz_min + 1)..12)
    /\ [](TurnRuns /\ ThisTurn.code # -1
            => ThisTurn.code = PendingBits(0, lz_dec.dict.curr_code_size))

\* every 12-bit code is assigned and one more entry was pushed by a turn: the
\* width is 12 and was not grown by the push that filled the table
C34_Witness ==
    /\ lz_dec.dict.curr_code_size = 12
    /\ Len(lz_dec.dict.table) > 4096
    /\ lz_fed < Len(lz_stream)

\* the code read in this turn has a sequence in the table
IsExisting(code) ==
    /\ code >= 0
    /\ code < Len(lz_dec.dict.table)
    /\ lz_dec.dict.table[code + 1] # << >>

\* the code read in this turn is the next one to be assigned
IsNextFree(code) == code = Len(lz_dec.dict.table)

\* what a turn on a data code that emits S leaves: S added to the output, S as
\* the previous sequence and `pushed` as the table
DataTurn(S, pushed) ==
    /\ lz_out' = lz_out \o S
    /\ lz_dec'.current_val = S
    /\ lz_dec'.dict.table = pushed

\* C35: a turn on a code with an existing sequence S emits S, pushes
\* current_val ++ S[0] iff current_val is not empty and leaves current_val = S;
\* a turn on the next code to be assigned, current_val not empty, emits and
\* pushes S = current_val ++ current_val[0] and leaves current_val = S.  So a
\* data code appends exactly one entry, unless current_val was empty.
C35_DataCodeStep ==
    [][TurnRuns
         => /\ IsExisting(ThisTurn.code)
                 => DataTurn(lz_dec.dict.table[ThisTurn.code + 1],
                             IF lz_dec.current_val # << >>
                             THEN Append(lz_dec.dict.table,
                                         lz_dec.current_val
                                            \o << lz_dec.dict.table[ThisTurn.code + 1][1] >>)
                             ELSE lz_dec.dict.table)
            /\ IsNextFree(ThisTurn.code) /\ lz_dec.current_val # << >>
                 => DataTurn(lz_dec.current_val \o << lz_dec.current_val[1] >>,
                             Append(lz_dec.dict.table,
                                    lz_dec.current_val \o << lz_dec.current_val[1] >>))]_vars

\* the second code of a call was the next code to be assigned: the one entry
\* pushed so far is current_val, two bytes long
C35_Witness ==
    /\ Len(lz_dec.dict.table) = Pow2(lz_min) + 3
    /\ lz_dec.current_val = lz_dec.dict.table[Len(lz_dec.dict.table)]
    /\ Len(lz_dec.current_val) = 2
    /\ lz_out = << lz_dec.current_val[1] >> \o lz_dec.current_val

-----------------------------------------------------------------------------
(* Invalid LZW codes: the decoder followed one code at a time, and the      *)
(* driver on files with an image whose data holds an invalid code.          *)

\* a whole-screen image with the given image data, min_code_size 2
RawImage(chain) ==
    << IMAGE_DESCRIPTOR_BLOCK_ID >> \o U16(0) \o U16(0) \o U16(2) \o U16(2)
    \o << 0, 2 >> \o chain

\* image data with an invalid code, 3-bit codes first (Clear 4, Stop 5, first
\* free code 6):
\*   6 = (6, ..): the first free code with no sequence before it
\*   7 = (7, ..): a code past the first free code
\*  56 = (0, 7): a code past the first free code after a root
\*  52 = (Clear, 6): the first free code right after a Clear code
\*  0 then 18: the codes 0, 0, 0 of 3 bits, after which the table holds 8
\*  codes, then the 4-bit code 9, in the second sub-block
InvalidChains ==
    { SubBlocks(<< 6 >>), SubBlocks(<< 7 >>), SubBlocks(<< 56 >>), SubBlocks(<< 52 >>),
      << 1, 0, 1, 18, 0 >> }

\* a file whose last image holds an invalid code, after `before` valid frames
InvalidFile(before, chain) ==
    HeaderGct \o Concat([i \in 1..before |-> ImgFull]) \o RawImage(chain) \o Trailer

InvalidFiles == { InvalidFile(before, chain) : before \in 0..1, chain \in InvalidChains }

InitInvalid ==
    /\ input \in InvalidFiles
    /\ input_wf = FALSE
    /\ pos = 0
    /\ status = "header"
    /\ err = ""
    /\ header = None
    /\ last_graphic_ext = None
    /\ next_frame_base_buffer = None
    /\ found_loop_attribute = FALSE
    /\ events = << >>
    /\ gce_fresh = FALSE
    /\ sink_closed = FALSE
    /\ composited = << >>
    /\ LzIdle /\ CfIdle /\ HdIdle /\ PbIdle

SpecInvalid == (Init \/ InitInvalid \/ InitCodes) /\ [][Next \/ NextCodes]_vars

\* the code read in this turn is past the next code to be assigned, or is that
\* code while no sequence was decoded before it
IsInvalid(code) ==
    \/ code > Len(lz_dec.dict.table)
    \/ code = Len(lz_dec.dict.table) /\ lz_dec.current_val = << >>

\* C36: the turn that reads an invalid code ends decode_next with nothing added
\* to its output and no entry pushed, no code is decoded after it, and the
\* decoding of a file stops at the image that holds it: no frame is sent for
\* that image, nothing is sent or read after it and the decode does not end Ok.
C36_InvalidCodesAreFatal ==
    /\ [][TurnRuns /\ IsInvalid(ThisTurn.code)
            => /\ lz_panic'
               /\ lz_out' = lz_out
               /\ lz_dec'.dict = lz_dec.dict
               /\ lz_dec'.current_val = lz_dec.current_val]_vars
    /\ [][lz_panic => UNCHANGED lzVars]_vars
    /\ [](\A before \in 0..1, chain \in InvalidChains :
             input = InvalidFile(before, chain)
                => /\ Len(events) <= before
                   /\ \A i \in 1..Len(events) : IsFrame(events[i])
                   /\ status # "ok"
                   /\ pos < Len(input))

\* the decode of a file stopped in the second sub-block of its second image,
\* the first image sent as a frame
C36_Witness ==
    /\ input = InvalidFile(1, << 1, 0, 1, 18, 0 >>)
    /\ status \notin { "header", "running" }
    /\ Len(events) = 1

\* the bytes of the buffer not yet consumed
Unread == SliceFrom(lz_stream, lz_fed)

\* the input runs out before curr_code_size bits are there
RunsOut == lz_dec.bits + (8 * Len(Unread)) < lz_dec.dict.curr_code_size

RECURSIVE LittleEndian(_)
\* bytes as a number, the first byte lowest
LittleEndian(bytes) ==
    IF bytes = << >> THEN 0 ELSE bytes[1] + 256 * LittleEndian(Tail(bytes))

\* C37 as claimed: when the input runs out before curr_code_size bits are
\* there, get_next_code returns no code and acc and bits have the values they
\* had before the call.
C37_AccBitsUntouched ==
    [][TurnActs /\ RunsOut
         => /\ ThisTurn.code = -1
            /\ lz_dec'.acc = lz_dec.acc
            /\ lz_dec'.bits = lz_dec.bits]_vars

\* C37 amended: get_next_code then returns no code with every byte left of its
\* input consumed and kept: bits has grown by 8 for each of them and acc holds
\* them above the bits it held, nothing else of the decoder being changed; acc
\* and bits are as before the call when no byte was left.
C37_AccBitsKeepInput ==
    /\ [][TurnActs /\ RunsOut
            => /\ ThisTurn.code = -1
               /\ lz_fed' = Len(lz_stream)
               /\ lz_dec'.bits = lz_dec.bits + (8 * Len(Unread))
               /\ lz_dec'.acc = lz_dec.acc + (Pow2(lz_dec.bits) * LittleEndian(Unread))
               /\ lz_dec' = [lz_dec EXCEPT !.bits = lz_dec'.bits, !.acc = lz_dec'.acc]
               /\ lz_out' = lz_out]_vars
    /\ [](TurnRuns /\ RunsOut /\ Unread = << >>
            => ThisTurn.code = -1 /\ ThisTurn.dec = lz_dec)

\* a call with 9-bit codes has returned with one byte, not zero, in acc
C37_Witness ==
    /\ lz_min = 8
    /\ lz_fed = Len(lz_stream)
    /\ lz_dec.bits = 8
    /\ lz_dec.acc > 0
    /\ lz_dec.dict.curr_code_size = 9

\* the kinds of GifParsingError
ErrorKinds ==
    { "IOError", "NoGIFHeader", "UnsupportedVersion", "UnexpectedLength",
      "ExpectedBlockTerminator", "InvalidColor", "TooMuchPixels", "NoColorTable",
      "UnrecognizedExtension", "UnrecognizedBlock" }

\* C38: a decode that is over has either sent GifFrameEnd, as its last event,
\* and returned Ok, or returned one GifParsingError; it never ends by a panic.
C38_EndsOkOrError ==
    \/ status \in { "idle", "header", "running" }
    \/ status = "ok" /\ events # << >> /\ IsEnd(events[Len(events)])
    \/ status = "error" /\ err \in ErrorKinds

\* C39: the table of the LZW dictionary never holds more than 4096 entries,
\* one for each 12-bit code.
C39_TableAtMost4096 == Len(lz_dec.dict.table) <= 4096

-----------------------------------------------------------------------------
(* Every frame added is displayed.                                           *)

\* frame i of the run was displayed
WasShown(i) == \E j \in 1..Len(displayed) : displayed[j] = << i >>

\* the frame a pass shows after the frames shown so far: the one after the last
\* shown, the first when nothing was shown or the last stored frame was
NextInPass ==
    IF displayed = << >> \/ LastShown(displayed) = Len(store.frames)
    THEN 1
    ELSE LastShown(displayed) + 1

\* check never shows anything but the next frame of the pass
InPassOrder == [][displayed' # displayed => displayed' = Append(displayed, << NextInPass >>)]_vars

\* frame i, once added, is displayed at some time
ShownOnceAdded(i) == [](Len(store.frames) >= i => <>WasShown(i))

\* C40: every frame added to the store is eventually displayed, in insertion
\* order and without a frame skipped or repeated within a pass, whenever the
\* frames are added and whether or not they carry a delay.
C40_EveryFrameDisplayed == InPassOrder /\ \A i \in 1..MaxFrames : ShownOnceAdded(i)

====
